---------------------------- MODULE Spec2Model ----------------------------
(***************************************************************************)
(* A model of the spreadsheet core: Position, the formula AST and its      *)
(* TreeBuilder, the CellParamCache of shared reference slots, Formula,     *)
(* Cell and Sheet.                                                         *)
(*                                                                         *)
(* Modelling conventions                                                   *)
(*  - a std::string is a sequence of one-character strings;                *)
(*  - a double is an exact rational num/den (den > 0, lowest terms);       *)
(*    a non-finite result (x/0) is the only one the inputs can produce and *)
(*    is represented by NonFinite;                                         *)
(*  - a Cell* is a cell id (a heap address), 0 is nullptr; an id that is   *)
(*    no longer in the grid but still sits in some in_cells_/out_cells_    *)
(*    set is a dangling pointer;                                           *)
(*  - a std::shared_ptr<CellParam> is an index into the formula's slot     *)
(*    store.                                                               *)
(***************************************************************************)
EXTENDS Integers, Sequences, FiniteSets

(***************************************************************************)
(* Characters                                                              *)
(***************************************************************************)
Letters ==
    << "A", "B", "C", "D", "E", "F", "G", "H", "I", "J", "K", "L", "M",
       "N", "O", "P", "Q", "R", "S", "T", "U", "V", "W", "X", "Y", "Z" >>

DigitChars ==
    << "0", "1", "2", "3", "4", "5", "6", "7", "8", "9" >>

ALPHABET_POWER == 26

IsLetter(c) == \E i \in 1..ALPHABET_POWER : Letters[i] = c

IsDigit(c) == \E i \in 1..10 : DigitChars[i] = c

\* c - ALPHABET_OFFSET for an upper-case letter c
LetterValue(c) == (CHOOSE i \in 1..ALPHABET_POWER : Letters[i] = c) - 1

\* c - '0' for a decimal digit c
DigitValue(c) == (CHOOSE i \in 1..10 : DigitChars[i] = c) - 1

\* std::to_string of a non-negative int
RECURSIVE ToDecimal(_)
ToDecimal(n) ==
    IF n < 10 THEN << DigitChars[n + 1] >>
    ELSE ToDecimal(n \div 10) \o << DigitChars[(n % 10) + 1] >>

\* the value of a non-empty string of decimal digits
RECURSIVE FromDecimal(_)
FromDecimal(s) ==
    IF Len(s) = 0 THEN 0
    ELSE 10 * FromDecimal(SubSeq(s, 1, Len(s) - 1)) + DigitValue(s[Len(s)])

\* the length of the longest prefix of s made of decimal digits
RECURSIVE DigitPrefixLen(_)
DigitPrefixLen(s) ==
    IF Len(s) > 0 /\ IsDigit(Head(s)) THEN 1 + DigitPrefixLen(Tail(s)) ELSE 0

\* the length of the longest prefix of s made of upper-case letters
RECURSIVE LetterPrefixLen(_)
LetterPrefixLen(s) ==
    IF Len(s) > 0 /\ IsLetter(Head(s)) THEN 1 + LetterPrefixLen(Tail(s)) ELSE 0

Min(a, b) == IF a < b THEN a ELSE b

Max(a, b) == IF a < b THEN b ELSE a

\* the elements of a finite set of integers, largest first (a reverse iteration
\* of an ordered map's keys)
RECURSIVE Descending(_)
Descending(S) ==
    IF S = {} THEN << >>
    ELSE LET m == CHOOSE x \in S : \A y \in S : y <= x
         IN  << m >> \o Descending(S \ {m})

\* the elements of a finite set of integers, smallest first
RECURSIVE Ascending(_)
Ascending(S) ==
    IF S = {} THEN << >>
    ELSE LET m == CHOOSE x \in S : \A y \in S : x <= y
         IN  << m >> \o Ascending(S \ {m})

(***************************************************************************)
(* Position                                                                *)
(***************************************************************************)
kMaxRows == 16384

kMaxCols == 16384

Pos(r, c) == [row |-> r, col |-> c]

InvalidPos == Pos(-1, -1)

\* Position::IsValid that does not bound the column
IsValidForAnyCol(pos) == 0 <= pos.row /\ pos.row < kMaxRows /\ 0 <= pos.col

IsValid(pos) ==
    0 <= pos.row /\ pos.row < kMaxRows /\ 0 <= pos.col /\ pos.col < kMaxCols

\* the column letters written as plain base 26, without the - 1 of each turn
RECURSIVE ColumnLettersBase26(_)
ColumnLettersBase26(current_col) ==
    IF current_col >= ALPHABET_POWER
    THEN ColumnLettersBase26(current_col \div ALPHABET_POWER)
             \o << Letters[(current_col % ALPHABET_POWER) + 1] >>
    ELSE << Letters[current_col + 1] >>

\* the column letters pushed on the stack by Position::ToString, top first
RECURSIVE ColumnLetters(_)
ColumnLetters(current_col) ==
    IF current_col >= ALPHABET_POWER
    THEN ColumnLetters((current_col \div ALPHABET_POWER) - 1)
             \o << Letters[(current_col % ALPHABET_POWER) + 1] >>
    ELSE << Letters[current_col + 1] >>

ToString(pos) ==
    IF pos.row < 0 \/ pos.col < 0 THEN << >>
    ELSE ColumnLetters(pos.col) \o ToDecimal(pos.row + 1)

\* CELL_REGEX with \d in place of [1-9]
MatchesCellRegexAnyFirstDigit(str) ==
    LET nl == LetterPrefixLen(str)
        digits == SubSeq(str, nl + 1, Len(str))
    IN  /\ nl \in 1..3
        /\ Len(digits) \in 1..5
        /\ DigitPrefixLen(digits) = Len(digits)

\* CELL_REGEX: ([A-Z]{1,3})([1-9]\d{0,4}) matched against the whole string
MatchesCellRegex(str) ==
    LET nl == LetterPrefixLen(str)
        digits == SubSeq(str, nl + 1, Len(str))
    IN  /\ nl \in 1..3
        /\ Len(digits) \in 1..5
        /\ DigitPrefixLen(digits) = Len(digits)
        /\ digits[1] # "0"

\* the loop of Position::FromString over the column part, last letter first
RECURSIVE ColumnValue(_, _)
ColumnValue(col_part, multiplier) ==
    IF Len(col_part) = 0 THEN 0
    ELSE (LetterValue(col_part[Len(col_part)]) + 1) * multiplier
         + ColumnValue(SubSeq(col_part, 1, Len(col_part) - 1),
                       multiplier * ALPHABET_POWER)

FromString(str) ==
    IF ~MatchesCellRegex(str) THEN InvalidPos
    ELSE LET nl == LetterPrefixLen(str)
             col_part == SubSeq(str, 1, nl)
             row_part == SubSeq(str, nl + 1, Len(str))
             col == LetterValue(col_part[nl])
                    + ColumnValue(SubSeq(col_part, 1, nl - 1), ALPHABET_POWER)
             row == FromDecimal(row_part) - 1
         IN  IF row < kMaxRows /\ col < kMaxCols THEN Pos(row, col)
             ELSE InvalidPos

(***************************************************************************)
(* Doubles and cell values                                                 *)
(***************************************************************************)
RECURSIVE Gcd(_, _)
Gcd(a, b) == IF b = 0 THEN a ELSE Gcd(b, a % b)

Abs(a) == IF a < 0 THEN -a ELSE a

\* the result of an operation that is not finite (inf, nan)
NonFinite == [fin |-> FALSE]

\* the finite double n/d, d # 0, in lowest terms
Rat(n, d) ==
    LET g == Gcd(Abs(n), Abs(d))
        s == IF d < 0 THEN -1 ELSE 1
    IN  [fin |-> TRUE, num |-> (s * n) \div g, den |-> (s * d) \div g]

IsFinite(x) == x.fin

DoubleAdd(x, y) ==
    IF ~x.fin \/ ~y.fin THEN NonFinite
    ELSE Rat(x.num * y.den + y.num * x.den, x.den * y.den)

DoubleSub(x, y) ==
    IF ~x.fin \/ ~y.fin THEN NonFinite
    ELSE Rat(x.num * y.den - y.num * x.den, x.den * y.den)

DoubleMul(x, y) ==
    IF ~x.fin \/ ~y.fin THEN NonFinite
    ELSE Rat(x.num * y.num, x.den * y.den)

DoubleDiv(x, y) ==
    IF ~x.fin \/ ~y.fin \/ y.num = 0 THEN NonFinite
    ELSE Rat(x.num * y.den, x.den * y.num)

DoubleNeg(x) == IF ~x.fin THEN NonFinite ELSE Rat(-x.num, x.den)

\* the alternatives of ICell::Value / IFormula::Value
DoubleValue(d) == [t |-> "double", d |-> d]

StringValue(s) == [t |-> "string", s |-> s]

ErrorValue(category) == [t |-> "error", e |-> category]

IsError(v) == v.t = "error"

IsDouble(v) == v.t = "double"

IsStringValue(v) == v.t = "string"

\* std::stod on a string of the modelled alphabet (no white space, '.',
\* exponent, hex prefix, inf or nan): an optional sign and the longest
\* prefix of digits; without a digit there std::invalid_argument is thrown.
StodThrows(str) ==
    LET body == IF Len(str) > 0 /\ Head(str) \in {"+", "-"} THEN Tail(str) ELSE str
    IN  DigitPrefixLen(body) = 0

Stod(str) ==
    LET neg == Len(str) > 0 /\ Head(str) = "-"
        body == IF Len(str) > 0 /\ Head(str) \in {"+", "-"} THEN Tail(str) ELSE str
        n == FromDecimal(SubSeq(body, 1, DigitPrefixLen(body)))
    IN  Rat(IF neg THEN -n ELSE n, 1)

(***************************************************************************)
(* CellParamCache: std::map<int, std::map<int, CellParamPtr>>.  A map is a *)
(* function on its key set; a CellParamPtr is an index into slots, the     *)
(* store of the shared CellParam objects of one formula.                   *)
(***************************************************************************)
EmptyMap == << >>

MapPut(m, k, v) == [x \in (DOMAIN m) \cup {k} |-> IF x = k THEN v ELSE m[x]]

MapErase(m, k) == [x \in (DOMAIN m) \ {k} |-> m[x]]

\* std::optional<Position>
NullOpt == [has |-> FALSE]

Some(pos) == [has |-> TRUE, row |-> pos.row, col |-> pos.col]

\* map::extract(key), entry.key() = new_key, map::insert(std::move(entry)):
\* when new_key is still present the insertion fails and the node is destroyed
Rekey(m, key, new_key) ==
    LET rest == MapErase(m, key)
    IN  IF new_key \in DOMAIN rest THEN rest ELSE MapPut(rest, new_key, m[key])

CellParamCacheOf(cell_params, slots) ==
    [cell_params_ |-> cell_params, slots |-> slots]

EmptyCellParamCache == CellParamCacheOf(EmptyMap, << >>)

\* CellParamCache::GetOrInsert: the cache afterwards and the slot returned
GetOrInsert(cache, position) ==
    LET rows == cache.cell_params_
        row == IF position.row \in DOMAIN rows THEN rows[position.row] ELSE EmptyMap
    IN  IF position.col \in DOMAIN row
        THEN [cache |-> CellParamCacheOf(MapPut(rows, position.row, row), cache.slots),
              ptr |-> row[position.col]]
        ELSE LET ptr == Len(cache.slots) + 1
             IN  [cache |-> CellParamCacheOf(
                                MapPut(rows, position.row, MapPut(row, position.col, ptr)),
                                Append(cache.slots, Some(position))),
                  ptr |-> ptr]

\* the slots named by one row entry of the cache
RowPtrs(row) == {row[c] : c \in DOMAIN row}

\* the number of entries of a row entry whose slot is not nullopt
LiveCount(row, slots) == Cardinality({c \in DOMAIN row : slots[row[c]].has})

\* cell_param->row = updated_row for every slot of the row entry that is set
SetRowOfSlots(slots, row, updated_row) ==
    [i \in DOMAIN slots |->
        IF i \in RowPtrs(row) /\ slots[i].has
        THEN [slots[i] EXCEPT !.row = updated_row] ELSE slots[i]]

\* the loop "for (int key: keys_to_update)" shared by HandleInsertedRows
\* (delta = count) and HandleDeletedRows (delta = -count)
RECURSIVE UpdateRowKeys(_, _, _, _)
UpdateRowKeys(cache, keys_to_update, delta, updated) ==
    IF Len(keys_to_update) = 0 THEN [cache |-> cache, updated |-> updated]
    ELSE LET key == Head(keys_to_update)
             updated_row == key + delta
             row == cache.cell_params_[key]
         IN  UpdateRowKeys(
                 CellParamCacheOf(Rekey(cache.cell_params_, key, updated_row),
                                  SetRowOfSlots(cache.slots, row, updated_row)),
                 Tail(keys_to_update), delta,
                 updated + LiveCount(row, cache.slots))

CacheHandleInsertedRows(cache, before, count) ==
    LET keys_to_update == Descending({k \in DOMAIN cache.cell_params_ : k >= before})
    IN  UpdateRowKeys(cache, keys_to_update, count, 0)

\* the loop "for (int key: keys_to_update)" over one row entry, shared by
\* HandleInsertedCols (delta = count) and HandleDeletedCols (delta = -count)
RECURSIVE UpdateColKeys(_, _, _, _, _)
UpdateColKeys(row, slots, keys_to_update, delta, updated) ==
    IF Len(keys_to_update) = 0
    THEN [row |-> row, slots |-> slots, updated |-> updated]
    ELSE LET key == Head(keys_to_update)
             ptr == row[key]
             live == slots[ptr].has
         IN  UpdateColKeys(
                 Rekey(row, key, key + delta),
                 IF live THEN MapPut(slots, ptr, [slots[ptr] EXCEPT !.col = key + delta]) ELSE slots,
                 Tail(keys_to_update), delta,
                 IF live THEN updated + 1 ELSE updated)

\* the loop "for (auto&[_, row]: cell_params_)" of HandleInsertedCols
RECURSIVE InsertedColsRows(_, _, _, _, _)
InsertedColsRows(cache, row_keys, before, count, updated) ==
    IF Len(row_keys) = 0 THEN [cache |-> cache, updated |-> updated]
    ELSE LET r == Head(row_keys)
             row == cache.cell_params_[r]
             keys_to_update == Descending({k \in DOMAIN row : k >= before})
             res == UpdateColKeys(row, cache.slots, keys_to_update, count, updated)
         IN  InsertedColsRows(
                 CellParamCacheOf(MapPut(cache.cell_params_, r, res.row), res.slots),
                 Tail(row_keys), before, count, res.updated)

CacheHandleInsertedCols(cache, before, count) ==
    InsertedColsRows(cache, Ascending(DOMAIN cache.cell_params_), before, count, 0)

\* the loop "for (int key: keys_to_delete)" of HandleDeletedRows: every slot
\* of the row entry is reset and counted, then the entry is erased
RECURSIVE DeleteRowKeys(_, _, _)
DeleteRowKeys(cache, keys_to_delete, deleted) ==
    IF Len(keys_to_delete) = 0 THEN [cache |-> cache, deleted |-> deleted]
    ELSE LET key == Head(keys_to_delete)
             row == cache.cell_params_[key]
         IN  DeleteRowKeys(
                 CellParamCacheOf(
                     MapErase(cache.cell_params_, key),
                     [i \in DOMAIN cache.slots |->
                         IF i \in RowPtrs(row) THEN NullOpt ELSE cache.slots[i]]),
                 Tail(keys_to_delete),
                 deleted + Cardinality(DOMAIN row))

\* the keys the two reverse loops collect: those >= start + count, then,
\* going on from where the first loop stopped, those >= start
KeysToUpdate(keys, start, count) == {k \in keys : k >= start + count}

KeysToDelete(keys, start, count) ==
    {k \in keys : k >= start /\ k < start + count}

CacheHandleDeletedRows(cache, start, count) ==
    LET keys == DOMAIN cache.cell_params_
        keys_to_update == Descending(KeysToUpdate(keys, start, count))
        keys_to_delete == Descending(KeysToDelete(keys, start, count))
        del == DeleteRowKeys(cache, keys_to_delete, 0)
        upd == UpdateRowKeys(del.cache, keys_to_update, -count, 0)
    IN  [cache |-> upd.cache, deleted |-> del.deleted, updated |-> upd.updated]

\* the loop "for (int key: keys_to_delete)" over one row entry of
\* HandleDeletedCols
RECURSIVE DeleteColKeys(_, _, _, _)
DeleteColKeys(row, slots, keys_to_delete, deleted) ==
    IF Len(keys_to_delete) = 0
    THEN [row |-> row, slots |-> slots, deleted |-> deleted]
    ELSE LET key == Head(keys_to_delete)
             ptr == row[key]
             live == slots[ptr].has
         IN  DeleteColKeys(
                 MapErase(row, key),
                 IF live THEN MapPut(slots, ptr, NullOpt) ELSE slots,
                 Tail(keys_to_delete),
                 IF live THEN deleted + 1 ELSE deleted)

\* the loop "for (auto&[_, row]: cell_params_)" of HandleDeletedCols
RECURSIVE DeletedColsRows(_, _, _, _, _, _)
DeletedColsRows(cache, row_keys, start, count, deleted, updated) ==
    IF Len(row_keys) = 0
    THEN [cache |-> cache, deleted |-> deleted, updated |-> updated]
    ELSE LET r == Head(row_keys)
             row == cache.cell_params_[r]
             keys_to_update == Descending(KeysToUpdate(DOMAIN row, start, count))
             keys_to_delete == Descending(KeysToDelete(DOMAIN row, start, count))
             del == DeleteColKeys(row, cache.slots, keys_to_delete, deleted)
             upd == UpdateColKeys(del.row, del.slots, keys_to_update, -count, updated)
         IN  DeletedColsRows(
                 CellParamCacheOf(MapPut(cache.cell_params_, r, upd.row), upd.slots),
                 Tail(row_keys), start, count, del.deleted, upd.updated)

CacheHandleDeletedCols(cache, start, count) ==
    DeletedColsRows(cache, Ascending(DOMAIN cache.cell_params_), start, count, 0, 0)

\* the positions pushed by one row entry, ascending by column
RowPositions(r, col_keys) == [i \in 1..Len(col_keys) |-> Pos(r, col_keys[i])]

RECURSIVE ReferencedFrom(_, _)
ReferencedFrom(cell_params, row_keys) ==
    IF Len(row_keys) = 0 THEN << >>
    ELSE RowPositions(Head(row_keys), Ascending(DOMAIN cell_params[Head(row_keys)]))
         \o ReferencedFrom(cell_params, Tail(row_keys))

CacheGetReferencedCells(cache) ==
    ReferencedFrom(cache.cell_params_, Ascending(DOMAIN cache.cell_params_))

(***************************************************************************)
(* AST nodes                                                               *)
(***************************************************************************)
UnaryOperators == {"PLUS", "MINUS"}

BinaryOperators == {"ADD", "SUB", "MUL", "DIV"}

UnaryToString(op) == IF op = "PLUS" THEN "+" ELSE "-"

BinaryToString(op) ==
    CASE op = "ADD" -> "+"
      [] op = "SUB" -> "-"
      [] op = "MUL" -> "*"
      [] OTHER -> "/"

\* UNARY_RESTRICTIONS, indexed by the operator of the parenthesised child
UNARY_RESTRICTIONS(child_op) ==
    CASE child_op = "ADD" -> "ALL"
      [] child_op = "SUB" -> "ALL"
      [] child_op = "MUL" -> "NONE"
      [] child_op = "DIV" -> "NONE"

\* BINARY_RESTRICTIONS with the row of MUL in place of the row of DIV
RestrictionsOfMulForDiv(parent_op, child_op) ==
    CASE parent_op = "ADD" -> "NONE"
      [] parent_op = "SUB" -> IF child_op \in {"ADD", "SUB"} THEN "RIGHT" ELSE "NONE"
      [] OTHER -> IF child_op \in {"ADD", "SUB"} THEN "ALL" ELSE "NONE"

\* BINARY_RESTRICTIONS[parent_op][child_op]
BINARY_RESTRICTIONS(parent_op, child_op) ==
    CASE parent_op = "ADD" -> "NONE"
      [] parent_op = "SUB" -> IF child_op \in {"ADD", "SUB"} THEN "RIGHT" ELSE "NONE"
      [] parent_op = "MUL" -> IF child_op \in {"ADD", "SUB"} THEN "ALL" ELSE "NONE"
      [] parent_op = "DIV" -> IF child_op \in {"ADD", "SUB"} THEN "ALL" ELSE "RIGHT"

IsLiteral(node) == node.k = "Literal"

IsCell(node) == node.k = "Cell"

IsParentheses(node) == node.k = "Parentheses"

IsUnaryOp(node) == node.k = "UnaryOp"

IsBinaryOp(node) == node.k = "BinaryOp"

OfLiteral(literal) == [k |-> "Literal", value |-> literal]

\* a leaf holding the shared slot ptr (the validity check of OfCellParamPtr is
\* made by AddCell, which knows the slot store)
OfCellParamPtr(ptr) == [k |-> "Cell", ptr |-> ptr]

OfParentheses(token) ==
    IF IsCell(token) \/ IsLiteral(token) \/ IsParentheses(token) THEN token
    ELSE [k |-> "Parentheses", content |-> token]

SimplifyUnaryParentheses(child) ==
    IF ~IsParentheses(child) THEN child
    ELSE IF /\ IsBinaryOp(child.content)
            /\ UNARY_RESTRICTIONS(child.content.op) = "ALL"
         THEN child
         ELSE child.content

SimplifyBinaryParentheses(parent_op, child, left) ==
    IF ~IsParentheses(child) THEN child
    ELSE IF /\ IsBinaryOp(child.content)
            /\ LET restrictions == BINARY_RESTRICTIONS(parent_op, child.content.op)
               IN  \/ restrictions = "ALL"
                   \/ (restrictions = "LEFT" /\ left)
                   \/ (restrictions = "RIGHT" /\ ~left)
         THEN child
         ELSE child.content

Unary(token, op) ==
    [k |-> "UnaryOp", op |-> op, token |-> SimplifyUnaryParentheses(token)]

Binary(lhs, rhs, op) ==
    [k |-> "BinaryOp", op |-> op,
     lhs |-> SimplifyBinaryParentheses(op, lhs, TRUE),
     rhs |-> SimplifyBinaryParentheses(op, rhs, FALSE)]

\* "#REF!"
REF_ERROR_STR == << "#", "R", "E", "F", "!" >>

RECURSIVE BuildExpression(_, _)
BuildExpression(node, slots) ==
    CASE IsLiteral(node) -> node.value
      [] IsCell(node) ->
            IF slots[node.ptr].has
            THEN ToString(Pos(slots[node.ptr].row, slots[node.ptr].col))
            ELSE REF_ERROR_STR
      [] IsParentheses(node) ->
            << "(" >> \o BuildExpression(node.content, slots) \o << ")" >>
      [] IsUnaryOp(node) ->
            << UnaryToString(node.op) >> \o BuildExpression(node.token, slots)
      [] IsBinaryOp(node) ->
            BuildExpression(node.lhs, slots) \o << BinaryToString(node.op) >>
                \o BuildExpression(node.rhs, slots)

(***************************************************************************)
(* TreeBuilder, driven by the parser's post-order events                   *)
(***************************************************************************)
LiteralEvent(text) == [e |-> "Literal", text |-> text]

CellEvent(name) == [e |-> "Cell", text |-> name]

ParensEvent == [e |-> "Parens"]

UnaryEvent(op) == [e |-> "Unary", op |-> op]

BinaryEvent(op) == [e |-> "Binary", op |-> op]

NewTreeBuilder ==
    [node_stack_ |-> << >>, cell_cache_ |-> EmptyCellParamCache, thrown |-> FALSE]

\* std::stack: the top is the last element
Top(stack) == stack[Len(stack)]

Pop(stack) == SubSeq(stack, 1, Len(stack) - 1)

AddLiteral(b, literal) ==
    [b EXCEPT !.node_stack_ = Append(@, OfLiteral(literal))]

\* GetOrInsert(Position::FromString(cell_name)), then OfCellParamPtr, which
\* throws FormulaException("invalid position") for an invalid position
PushCell(b, got, valid) ==
    IF ~valid
    THEN [b EXCEPT !.cell_cache_ = got.cache, !.thrown = TRUE]
    ELSE [b EXCEPT !.cell_cache_ = got.cache,
                   !.node_stack_ = Append(@, OfCellParamPtr(got.ptr))]

AddCellAt(b, position) ==
    PushCell(b, GetOrInsert(b.cell_cache_, position), IsValid(position))

AddCell(b, cell_name) == AddCellAt(b, FromString(cell_name))

AddParentheses(b) ==
    [b EXCEPT !.node_stack_ = Append(Pop(@), OfParentheses(Top(@)))]

AddUnaryOp(b, op) ==
    [b EXCEPT !.node_stack_ = Append(Pop(@), Unary(Top(@), op))]

AddBinaryOp(b, op) ==
    LET rhs == Top(b.node_stack_)
        lhs == Top(Pop(b.node_stack_))
    IN  [b EXCEPT !.node_stack_ = Append(Pop(Pop(@)), Binary(lhs, rhs, op))]

\* Ast::Tree
TreeOf(root, cell_cache) == [root_ |-> root, cell_cache_ |-> cell_cache]

Build(b) == TreeOf(Top(b.node_stack_), b.cell_cache_)

\* AstFormulaListener: one builder call per exit callback of the tree walk
Listener(b, event) ==
    CASE event.e = "Literal" -> AddLiteral(b, event.text)
      [] event.e = "Cell" -> AddCell(b, event.text)
      [] event.e = "Parens" -> AddParentheses(b)
      [] event.e = "Unary" -> AddUnaryOp(b, event.op)
      [] event.e = "Binary" -> AddBinaryOp(b, event.op)

RECURSIVE Walk(_, _)
Walk(b, events) ==
    IF Len(events) = 0 \/ b.thrown THEN b
    ELSE Walk(Listener(b, Head(events)), Tail(events))

TreeBuildExpression(tree) == BuildExpression(tree.root_, tree.cell_cache_.slots)

TreeGetReferencedCells(tree) == CacheGetReferencedCells(tree.cell_cache_)

(***************************************************************************)
(* The parser front end: the grammar                                       *)
(*     main  <- expr EOF                                                   *)
(*     expr  <- expr (ADD|SUB) term | term                                 *)
(*     term  <- term (MUL|DIV) unary | unary                               *)
(*     unary <- (ADD|SUB)? atom                                            *)
(*     atom  <- LITERAL | CELL | '(' expr ')'                              *)
(* over strings without white space, with LITERAL <- [0-9]+ and            *)
(* CELL <- [A-Z]{1,3}[1-9][0-9]{0,4}, each token the longest match.  A     *)
(* parse yields the post-order events of the listener's tree walk.         *)
(***************************************************************************)
ParseFail == [ok |-> FALSE]

ParseOk(ev, rest) == [ok |-> TRUE, ev |-> ev, rest |-> rest]

\* the length of the CELL token at the head of str, 0 when there is none
CellTokenLen(str) ==
    LET nl == LetterPrefixLen(str)
        after == SubSeq(str, nl + 1, Len(str))
    IN  IF nl \in 1..3 /\ Len(after) > 0 /\ IsDigit(Head(after)) /\ Head(after) # "0"
        THEN nl + Min(DigitPrefixLen(after), 5)
        ELSE 0

RECURSIVE ParseExpr(_)
RECURSIVE ParseExprRest(_, _)
RECURSIVE ParseTerm(_)
RECURSIVE ParseTermRest(_, _)
RECURSIVE ParseUnary(_)
RECURSIVE ParseAtom(_)

\* the token made of the first n characters of str, n > 0
TakeToken(event(_), str, n) ==
    ParseOk(<< event(SubSeq(str, 1, n)) >>, SubSeq(str, n + 1, Len(str)))

\* a parse followed by one more event
ThenEvent(res, event) ==
    IF res.ok THEN ParseOk(res.ev \o << event >>, res.rest) ELSE ParseFail

\* '(' expr ')' once the expression has been parsed
CloseParens(inner) ==
    IF inner.ok /\ Len(inner.rest) > 0 /\ Head(inner.rest) = ")"
    THEN ParseOk(inner.ev \o << ParensEvent >>, Tail(inner.rest))
    ELSE ParseFail

ParseAtom(str) ==
    IF Len(str) = 0 THEN ParseFail
    ELSE IF IsDigit(Head(str)) THEN TakeToken(LiteralEvent, str, DigitPrefixLen(str))
    ELSE IF IsLetter(Head(str))
    THEN IF CellTokenLen(str) = 0 THEN ParseFail
         ELSE TakeToken(CellEvent, str, CellTokenLen(str))
    ELSE IF Head(str) = "(" THEN CloseParens(ParseExpr(Tail(str)))
    ELSE ParseFail

ParseUnary(str) ==
    IF Len(str) > 0 /\ Head(str) \in {"+", "-"}
    THEN ThenEvent(ParseAtom(Tail(str)),
                   UnaryEvent(IF Head(str) = "+" THEN "PLUS" ELSE "MINUS"))
    ELSE ParseAtom(str)

\* term (MUL|DIV) unary once the right operand has been parsed
TermStep(ev, rhs, op) ==
    IF rhs.ok THEN ParseTermRest(ev \o rhs.ev \o << BinaryEvent(op) >>, rhs.rest)
    ELSE ParseFail

ParseTermRest(ev, str) ==
    IF Len(str) > 0 /\ Head(str) \in {"*", "/"}
    THEN TermStep(ev, ParseUnary(Tail(str)), IF Head(str) = "*" THEN "MUL" ELSE "DIV")
    ELSE ParseOk(ev, str)

TermStart(first) ==
    IF first.ok THEN ParseTermRest(first.ev, first.rest) ELSE ParseFail

ParseTerm(str) == TermStart(ParseUnary(str))

\* expr (ADD|SUB) term once the right operand has been parsed
ExprStep(ev, rhs, op) ==
    IF rhs.ok THEN ParseExprRest(ev \o rhs.ev \o << BinaryEvent(op) >>, rhs.rest)
    ELSE ParseFail

ParseExprRest(ev, str) ==
    IF Len(str) > 0 /\ Head(str) \in {"+", "-"}
    THEN ExprStep(ev, ParseTerm(Tail(str)), IF Head(str) = "+" THEN "ADD" ELSE "SUB")
    ELSE ParseOk(ev, str)

ExprStart(first) ==
    IF first.ok THEN ParseExprRest(first.ev, first.rest) ELSE ParseFail

ParseExpr(str) == ExprStart(ParseTerm(str))

AtEnd(res) == IF res.ok /\ Len(res.rest) = 0 THEN res ELSE ParseFail

ParseMain(expression) == AtEnd(ParseExpr(expression))

\* the result of ParseFormula: a tree, or FormulaException thrown
FormulaThrown == [thrown |-> TRUE]

\* listener.GetResult() unless the walk has thrown
GetResult(b) ==
    IF b.thrown THEN FormulaThrown ELSE [thrown |-> FALSE, tree |-> Build(b)]

\* the tree walk over a parse, unless the parser has bailed out
WalkParsed(parsed) ==
    IF ~parsed.ok THEN FormulaThrown ELSE GetResult(Walk(NewTreeBuilder, parsed.ev))

ParseFormula(expression) == WalkParsed(ParseMain(expression))

(***************************************************************************)
(* Formula                                                                 *)
(***************************************************************************)
FormulaGetExpression(formula) == TreeBuildExpression(formula.tree_)

FormulaGetReferencedCells(formula) == TreeGetReferencedCells(formula.tree_)

FormulaOf(tree) == [null |-> FALSE, tree_ |-> tree]

\* an empty std::unique_ptr<IFormula>
NullFormula == [null |-> TRUE]

WithCache(formula, cache) ==
    FormulaOf(TreeOf(formula.tree_.root_, cache))

\* the HandlingResult and the formula afterwards
FormulaHandleInsertedRows(formula, before, count) ==
    LET res == CacheHandleInsertedRows(formula.tree_.cell_cache_, before, count)
    IN  [formula |-> WithCache(formula, res.cache),
         result |-> IF res.updated > 0 THEN "ReferencesRenamedOnly" ELSE "NothingChanged"]

FormulaHandleInsertedCols(formula, before, count) ==
    LET res == CacheHandleInsertedCols(formula.tree_.cell_cache_, before, count)
    IN  [formula |-> WithCache(formula, res.cache),
         result |-> IF res.updated > 0 THEN "ReferencesRenamedOnly" ELSE "NothingChanged"]

\* the result of a deletion with the count of the renamed slots looked at
\* first
DeletedResultRenamedFirst(res) ==
    IF res.updated > 0 THEN "ReferencesRenamedOnly"
    ELSE IF res.deleted > 0 THEN "ReferencesChanged" ELSE "NothingChanged"

DeletedResult(res) ==
    IF res.deleted > 0 THEN "ReferencesChanged"
    ELSE IF res.updated > 0 THEN "ReferencesRenamedOnly" ELSE "NothingChanged"

FormulaHandleDeletedRows(formula, first, count) ==
    LET res == CacheHandleDeletedRows(formula.tree_.cell_cache_, first, count)
    IN  [formula |-> WithCache(formula, res.cache), result |-> DeletedResult(res)]

FormulaHandleDeletedCols(formula, first, count) ==
    LET res == CacheHandleDeletedCols(formula.tree_.cell_cache_, first, count)
    IN  [formula |-> WithCache(formula, res.cache), result |-> DeletedResult(res)]

(***************************************************************************)
(* Cell.  The heap maps the address of every cell the grid owns to its     *)
(* fields.  A pointer kept in an in_cells_/out_cells_ set whose cell has   *)
(* been destroyed dangles; using it is undefined behaviour, of which the   *)
(* model keeps three outcomes: the destroyed object reads as a cell with   *)
(* empty sets and no cache and ignores writes; the program crashes; or the *)
(* address has been handed out again and the pointer now names the new     *)
(* cell.                                                                   *)
(***************************************************************************)
kFormulaSign == "="

kEscapeSign == "'"

NewCell ==
    [text_ |-> << >>, formula_ |-> NullFormula, cache_ |-> NullOpt,
     in_cells_ |-> {}, out_cells_ |-> {}]

Dangling(heap, ptr) == ptr \notin DOMAIN heap

\* what the members of a Cell read through ptr
HasCache(heap, ptr) == IF Dangling(heap, ptr) THEN FALSE ELSE heap[ptr].cache_.has

GetInCells(heap, ptr) == IF Dangling(heap, ptr) THEN {} ELSE heap[ptr].in_cells_

GetOutCells(heap, ptr) == IF Dangling(heap, ptr) THEN {} ELSE heap[ptr].out_cells_

\* out_cell->RemoveInCell(this) for every out_cell of the set
RemoveFromInCellsOf(heap, ptrs, this) ==
    [p \in DOMAIN heap |->
        IF p \in ptrs THEN [heap[p] EXCEPT !.in_cells_ = @ \ {this}] ELSE heap[p]]

RemoveFromOutCellsOf(heap, ptrs, this) ==
    [p \in DOMAIN heap |->
        IF p \in ptrs THEN [heap[p] EXCEPT !.out_cells_ = @ \ {this}] ELSE heap[p]]

AddToInCellsOf(heap, ptrs, this) ==
    [p \in DOMAIN heap |->
        IF p \in ptrs THEN [heap[p] EXCEPT !.in_cells_ = @ \cup {this}] ELSE heap[p]]

ClearData(heap, this) ==
    LET out == heap[this].out_cells_
        cleared == MapPut(heap, this,
                          [heap[this] EXCEPT !.text_ = << >>,
                                             !.formula_ = NullFormula,
                                             !.cache_ = NullOpt,
                                             !.out_cells_ = {}])
    IN  RemoveFromInCellsOf(cleared, out, this)

SetFormula(heap, this, formula, out_cells) ==
    LET cleared == ClearData(heap, this)
        set == MapPut(cleared, this,
                      [cleared[this] EXCEPT
                           !.formula_ = formula,
                           !.text_ = << kFormulaSign >> \o FormulaGetExpression(formula),
                           !.out_cells_ = out_cells])
    IN  AddToInCellsOf(set, out_cells, this)

WithText(cleared, this, text) ==
    MapPut(cleared, this, [cleared[this] EXCEPT !.text_ = text])

SetPlainText(heap, this, text) == WithText(ClearData(heap, this), this, text)

CellGetText(cell) == cell.text_

CellGetReferencedCells(cell) ==
    IF cell.formula_.null THEN << >> ELSE FormulaGetReferencedCells(cell.formula_)

\* the cell after Cell::HandleDeletedRows / HandleDeletedCols given the
\* formula's answer, and whether the cache must be invalidated
\* Cell::HandleDeletedRows that forgets to rebuild the text
CellAfterDeletedKeepingText(cell, res) ==
    [cell |-> [cell EXCEPT !.formula_ = res.formula],
     invalidate |-> res.result = "ReferencesChanged"]

CellAfterDeleted(cell, res) ==
    CASE res.result = "NothingChanged" ->
            [cell |-> [cell EXCEPT !.formula_ = res.formula], invalidate |-> FALSE]
      [] res.result = "ReferencesRenamedOnly" ->
            [cell |-> [cell EXCEPT !.formula_ = res.formula,
                                   !.text_ = << kFormulaSign >> \o FormulaGetExpression(res.formula)],
             invalidate |-> FALSE]
      [] res.result = "ReferencesChanged" ->
            [cell |-> [cell EXCEPT !.formula_ = res.formula,
                                   !.text_ = << kFormulaSign >> \o FormulaGetExpression(res.formula)],
             invalidate |-> TRUE]

CellHandleDeletedRows(cell, first, count) ==
    IF cell.formula_.null THEN [cell |-> cell, invalidate |-> FALSE]
    ELSE CellAfterDeleted(cell, FormulaHandleDeletedRows(cell.formula_, first, count))

CellHandleDeletedCols(cell, first, count) ==
    IF cell.formula_.null THEN [cell |-> cell, invalidate |-> FALSE]
    ELSE CellAfterDeleted(cell, FormulaHandleDeletedCols(cell.formula_, first, count))

\* Cell::HandleInsertedRows that forgets to rebuild the text
CellAfterInsertedKeepingText(cell, res) == [cell EXCEPT !.formula_ = res.formula]

CellAfterInserted(cell, res) ==
    IF res.result = "ReferencesRenamedOnly"
    THEN [cell EXCEPT !.formula_ = res.formula,
                      !.text_ = << kFormulaSign >> \o FormulaGetExpression(res.formula)]
    ELSE [cell EXCEPT !.formula_ = res.formula]

CellHandleInsertedRows(cell, before, count) ==
    IF cell.formula_.null THEN cell
    ELSE CellAfterInserted(cell, FormulaHandleInsertedRows(cell.formula_, before, count))

CellHandleInsertedCols(cell, before, count) ==
    IF cell.formula_.null THEN cell
    ELSE CellAfterInserted(cell, FormulaHandleInsertedCols(cell.formula_, before, count))

(***************************************************************************)
(* Sheet: cells_ is the grid of owning pointers (0 is nullptr), heap the   *)
(* cells they own.                                                         *)
(***************************************************************************)
SheetOf(grid, heap) == [cells_ |-> grid, heap |-> heap]

Rows(grid) == Len(grid)

Cols(grid) == IF Len(grid) > 0 THEN Len(grid[1]) ELSE 0

OutOfRange(grid, pos) == pos.row >= Rows(grid) \/ pos.col >= Cols(grid)

\* cells_[pos.row][pos.col]
At(grid, pos) == grid[pos.row + 1][pos.col + 1]

\* std::vector::resize of a row of owning pointers
ResizeVector(row, n) == [i \in 1..n |-> IF i <= Len(row) THEN row[i] ELSE 0]

\* the cells destroyed with their owning pointers leave the heap
Collect(grid, heap) ==
    LET owned == {p \in DOMAIN heap : \E i \in 1..Len(grid) : \E j \in 1..Len(grid[i]) : grid[i][j] = p}
    IN  [p \in owned |-> heap[p]]

ResizeRows(grid, row_index) ==
    IF Rows(grid) <= row_index
    THEN [i \in 1..(row_index + 1) |->
            IF i <= Rows(grid) THEN grid[i] ELSE ResizeVector(<< >>, Cols(grid))]
    ELSE grid

\* Sheet::ResizeCols that resizes every row whatever its length
ResizeColsOfAnyLength(grid, col_index) ==
    [i \in 1..Rows(grid) |-> ResizeVector(grid[i], col_index + 1)]

ResizeCols(grid, col_index) ==
    IF Cols(grid) <= col_index
    THEN [i \in 1..Rows(grid) |-> ResizeVector(grid[i], col_index + 1)]
    ELSE grid

Resize(grid, pos) == ResizeCols(ResizeRows(grid, pos.row), pos.col)

\* every pointer kept in some in_cells_ or out_cells_ set
Referenced(heap) ==
    UNION {heap[p].in_cells_ \cup heap[p].out_cells_ : p \in DOMAIN heap}

DanglingPtrs(heap) == Referenced(heap) \ DOMAIN heap

\* the address std::make_unique<Cell> returns: with reuse, that of a
\* destroyed cell some pointer still names; otherwise one nothing names
Allocate(heap, reuse) ==
    IF reuse /\ DanglingPtrs(heap) # {}
    THEN CHOOSE p \in DanglingPtrs(heap) : \A q \in DanglingPtrs(heap) : p <= q
    ELSE LET used == (DOMAIN heap) \cup Referenced(heap)
         IN  CHOOSE p \in 1..(Cardinality(used) + 1) :
                 /\ p \notin used
                 /\ \A q \in 1..(Cardinality(used) + 1) : q \notin used => p <= q

\* cells_[pos.row][pos.col] = ptr
SetPtr(grid, pos, ptr) ==
    [i \in 1..Len(grid) |->
        [j \in 1..Len(grid[i]) |->
            IF i = pos.row + 1 /\ j = pos.col + 1 THEN ptr ELSE grid[i][j]]]

\* the end of GetOrCreateCell with a cell made whether there is one or not,
\* the one there was being left unowned
MakeAnew(grid, heap, pos, ptr) ==
    [sheet |-> SheetOf(SetPtr(grid, pos, ptr),
                       [p \in (DOMAIN heap) \cup {ptr} |->
                           IF p = ptr THEN NewCell ELSE heap[p]]),
     ptr |-> ptr]

\* the end of GetOrCreateCell: the cell at pos is made when there is none
MakeIfNull(grid, heap, pos, ptr) ==
    IF At(grid, pos) = 0
    THEN [sheet |-> SheetOf(SetPtr(grid, pos, ptr),
                            [p \in (DOMAIN heap) \cup {ptr} |->
                                IF p = ptr THEN NewCell ELSE heap[p]]),
          ptr |-> ptr]
    ELSE [sheet |-> SheetOf(grid, heap), ptr |-> At(grid, pos)]

GetOrCreateIn(grid, heap, pos, reuse) ==
    MakeIfNull(grid, heap, pos, Allocate(heap, reuse))

\* Sheet::GetOrCreateCell for a valid position
GetOrCreateCell(sheet, pos, reuse) ==
    IF OutOfRange(sheet.cells_, pos)
    THEN GetOrCreateIn(Resize(sheet.cells_, pos),
                       Collect(Resize(sheet.cells_, pos), sheet.heap), pos, reuse)
    ELSE GetOrCreateIn(sheet.cells_, sheet.heap, pos, reuse)

\* the loop of SetCell over formula->GetReferencedCells()
RECURSIVE CreateReferenced(_, _, _, _)
RECURSIVE CreateNext(_, _, _, _)
CreateNext(got, ref_positions, reuse, out_cells) ==
    CreateReferenced(got.sheet, ref_positions, reuse, out_cells \cup {got.ptr})

CreateReferenced(sheet, ref_positions, reuse, out_cells) ==
    IF Len(ref_positions) = 0 THEN [sheet |-> sheet, out_cells |-> out_cells]
    ELSE CreateNext(GetOrCreateCell(sheet, Head(ref_positions), reuse),
                    Tail(ref_positions), reuse, out_cells)

\* the loop of TransitiveReferencedCells; the result does not depend on the
\* order in which the stack is emptied
RECURSIVE TransitiveLoop(_, _, _)
TransitiveLoop(heap, stack, result) ==
    IF stack = {} THEN result
    ELSE LET current_cell == CHOOSE p \in stack : TRUE
         IN  IF current_cell \in result
             THEN TransitiveLoop(heap, stack \ {current_cell}, result)
             ELSE TransitiveLoop(
                      heap,
                      (stack \ {current_cell})
                          \cup (GetOutCells(heap, current_cell) \ (result \cup {current_cell})),
                      result \cup {current_cell})

TransitiveReferencedCells(heap, formula_ref_cells) ==
    TransitiveLoop(heap, formula_ref_cells, {})

\* Sheet::InvalidateCache that resets the caches on its stack without pushing
\* the in-cells
RECURSIVE InvalidateLoopNotFollowing(_, _, _)
InvalidateLoopNotFollowing(heap, stack, visited) ==
    IF stack = {} THEN [heap |-> heap, visited |-> visited]
    ELSE LET current_cell == CHOOSE p \in stack : TRUE
         IN  InvalidateLoopNotFollowing(
                 IF HasCache(heap, current_cell)
                 THEN MapPut(heap, current_cell,
                             [heap[current_cell] EXCEPT !.cache_ = NullOpt])
                 ELSE heap,
                 stack \ {current_cell}, visited \cup {current_cell})

\* Sheet::InvalidateCache that pushes the in-cells of a cell whether it holds
\* a cache or not
RECURSIVE InvalidateLoopPastUncached(_, _, _)
InvalidateLoopPastUncached(heap, stack, visited) ==
    IF stack = {} THEN [heap |-> heap, visited |-> visited]
    ELSE LET current_cell == CHOOSE p \in stack : TRUE
         IN  IF current_cell \in visited
             THEN InvalidateLoopPastUncached(heap, stack \ {current_cell}, visited)
             ELSE InvalidateLoopPastUncached(
                      IF HasCache(heap, current_cell)
                      THEN MapPut(heap, current_cell,
                                  [heap[current_cell] EXCEPT !.cache_ = NullOpt])
                      ELSE heap,
                      (stack \ {current_cell})
                          \cup (GetInCells(heap, current_cell) \ (visited \cup {current_cell})),
                      visited \cup {current_cell})

\* the loop of Sheet::InvalidateCache: the cells visited, and the heap with
\* the cache of every visited cell that had one reset
RECURSIVE InvalidateLoop(_, _, _)
InvalidateLoop(heap, stack, visited) ==
    IF stack = {} THEN [heap |-> heap, visited |-> visited]
    ELSE LET current_cell == CHOOSE p \in stack : TRUE
         IN  IF current_cell \in visited
             THEN InvalidateLoop(heap, stack \ {current_cell}, visited)
             ELSE IF HasCache(heap, current_cell)
             THEN InvalidateLoop(
                      MapPut(heap, current_cell, [heap[current_cell] EXCEPT !.cache_ = NullOpt]),
                      (stack \ {current_cell})
                          \cup (GetInCells(heap, current_cell) \ (visited \cup {current_cell})),
                      visited \cup {current_cell})
             ELSE InvalidateLoop(heap, stack \ {current_cell},
                                 visited \cup {current_cell})

InvalidateCache(heap, cell) == InvalidateLoop(heap, {cell}, {})

(***************************************************************************)
(* Evaluation.  A result carries the value, the caches filled on the way   *)
(* (cell address |-> value) and whether the recursion re-entered a cell    *)
(* whose value is being computed, in which case it never returns.          *)
(***************************************************************************)
MapMerge(f, g) ==
    [x \in (DOMAIN f) \cup (DOMAIN g) |-> IF x \in DOMAIN g THEN g[x] ELSE f[x]]

Evaluated(v, filled) == [v |-> v, filled |-> filled, diverged |-> FALSE]

Diverged == [diverged |-> TRUE]

\* the conversion of a referenced cell's value made by the IsCell() branch
FromCellValue(cell_value) ==
    IF IsStringValue(cell_value)
    THEN IF Len(cell_value.s) = 0 THEN DoubleValue(Rat(0, 1))
         ELSE IF StodThrows(cell_value.s) THEN ErrorValue("Value")
         ELSE DoubleValue(Stod(cell_value.s))
    ELSE cell_value

\* the arithmetic on two doubles without the test of std::isfinite
BinaryResultUnchecked(op, lhs_value, rhs_value) ==
    DoubleValue(CASE op = "ADD" -> DoubleAdd(lhs_value, rhs_value)
                  [] op = "SUB" -> DoubleSub(lhs_value, rhs_value)
                  [] op = "MUL" -> DoubleMul(lhs_value, rhs_value)
                  [] op = "DIV" -> DoubleDiv(lhs_value, rhs_value))

\* the arithmetic of the IsBinaryOp() branch on two doubles
BinaryResult(op, lhs_value, rhs_value) ==
    LET result == CASE op = "ADD" -> DoubleAdd(lhs_value, rhs_value)
                    [] op = "SUB" -> DoubleSub(lhs_value, rhs_value)
                    [] op = "MUL" -> DoubleMul(lhs_value, rhs_value)
                    [] op = "DIV" -> DoubleDiv(lhs_value, rhs_value)
    IN  IF IsFinite(result) THEN DoubleValue(result) ELSE ErrorValue("Div0")

RECURSIVE Evaluate(_, _, _, _)
RECURSIVE CellGetValue(_, _, _)

\* Node::Evaluate with the right operand's error returned before the left's
EvaluateRightFirst(node, slots, sheet, visiting) ==
    CASE IsLiteral(node) -> Evaluated(DoubleValue(Stod(node.value)), EmptyMap)
      [] IsCell(node) ->
            LET param == slots[node.ptr]
                pos == Pos(param.row, param.col)
            IN  IF ~param.has THEN Evaluated(ErrorValue("Ref"), EmptyMap)
                ELSE IF OutOfRange(sheet.cells_, pos) \/ At(sheet.cells_, pos) = 0
                THEN Evaluated(DoubleValue(Rat(0, 1)), EmptyMap)
                ELSE LET got == CellGetValue(sheet, At(sheet.cells_, pos), visiting)
                     IN  IF got.diverged THEN Diverged
                         ELSE Evaluated(FromCellValue(got.v), got.filled)
      [] IsParentheses(node) -> Evaluate(node.content, slots, sheet, visiting)
      [] IsUnaryOp(node) ->
            LET token == Evaluate(node.token, slots, sheet, visiting)
            IN  IF token.diverged THEN Diverged
                ELSE IF IsDouble(token.v)
                THEN Evaluated(
                         IF node.op = "PLUS" THEN token.v ELSE DoubleValue(DoubleNeg(token.v.d)),
                         token.filled)
                ELSE token
      [] IsBinaryOp(node) ->
            LET rhs == Evaluate(node.rhs, slots, sheet, visiting)
            IN  IF rhs.diverged THEN Diverged
                ELSE IF IsError(rhs.v) THEN rhs
                ELSE LET lhs == Evaluate(node.lhs, slots, sheet, visiting)
                     IN  IF lhs.diverged THEN Diverged
                         ELSE IF IsError(lhs.v)
                         THEN Evaluated(lhs.v, MapMerge(lhs.filled, rhs.filled))
                         ELSE Evaluated(BinaryResult(node.op, lhs.v.d, rhs.v.d),
                                        MapMerge(lhs.filled, rhs.filled))

\* Node::Evaluate; visiting holds the cells whose GetValue is on the stack
Evaluate(node, slots, sheet, visiting) ==
    CASE IsLiteral(node) -> Evaluated(DoubleValue(Stod(node.value)), EmptyMap)
      [] IsCell(node) ->
            LET param == slots[node.ptr]
                pos == Pos(param.row, param.col)
            IN  IF ~param.has THEN Evaluated(ErrorValue("Ref"), EmptyMap)
                ELSE IF OutOfRange(sheet.cells_, pos) \/ At(sheet.cells_, pos) = 0
                THEN Evaluated(DoubleValue(Rat(0, 1)), EmptyMap)
                ELSE LET got == CellGetValue(sheet, At(sheet.cells_, pos), visiting)
                     IN  IF got.diverged THEN Diverged
                         ELSE Evaluated(FromCellValue(got.v), got.filled)
      [] IsParentheses(node) -> Evaluate(node.content, slots, sheet, visiting)
      [] IsUnaryOp(node) ->
            LET token == Evaluate(node.token, slots, sheet, visiting)
            IN  IF token.diverged THEN Diverged
                ELSE IF IsDouble(token.v)
                THEN Evaluated(
                         IF node.op = "PLUS" THEN token.v ELSE DoubleValue(DoubleNeg(token.v.d)),
                         token.filled)
                ELSE token
      [] IsBinaryOp(node) ->
            LET lhs == Evaluate(node.lhs, slots, sheet, visiting)
            IN  IF lhs.diverged THEN Diverged
                ELSE IF IsError(lhs.v) THEN lhs
                ELSE LET rhs == Evaluate(node.rhs, slots, sheet, visiting)
                     IN  IF rhs.diverged THEN Diverged
                         ELSE IF IsError(rhs.v)
                         THEN Evaluated(rhs.v, MapMerge(lhs.filled, rhs.filled))
                         ELSE Evaluated(BinaryResult(node.op, lhs.v.d, rhs.v.d),
                                        MapMerge(lhs.filled, rhs.filled))

\* Cell::CalculateCache without a formula that keeps the escape sign
TextValueKeepingEscape(text) == StringValue(text)

\* Cell::CalculateCache without a formula
TextValue(text) ==
    IF Len(text) > 0 /\ Head(text) = kEscapeSign THEN StringValue(Tail(text))
    ELSE StringValue(text)

\* Cell::GetValue with Cell::CalculateCache
CellGetValue(sheet, this, visiting) ==
    LET cell == sheet.heap[this]
    IN  IF cell.cache_.has THEN Evaluated(cell.cache_.v, EmptyMap)
        ELSE IF this \in visiting THEN Diverged
        ELSE IF ~cell.formula_.null
        THEN LET result == Evaluate(cell.formula_.tree_.root_,
                                    cell.formula_.tree_.cell_cache_.slots,
                                    sheet, visiting \cup {this})
             IN  IF result.diverged THEN Diverged
                 ELSE Evaluated(result.v, MapPut(result.filled, this, result.v))
        ELSE Evaluated(TextValue(cell.text_), MapPut(EmptyMap, this, TextValue(cell.text_)))

\* the heap after the caches filled by an evaluation are stored
StoreCaches(heap, filled) ==
    [p \in DOMAIN heap |->
        IF p \in DOMAIN filled
        THEN [heap[p] EXCEPT !.cache_ = [has |-> TRUE, v |-> filled[p]]]
        ELSE heap[p]]

(***************************************************************************)
(* The public operations of Sheet as functions of the sheet: the sheet     *)
(* afterwards, the exception thrown ("ok" when none) and whether a         *)
(* dangling pointer was used on the way.                                   *)
(***************************************************************************)
Outcome(sheet, result, ub) == [sheet |-> sheet, result |-> result, ub |-> ub]

HasDangling(heap, ptrs) == \E p \in ptrs : Dangling(heap, p)

\* the formula branch of SetCell with InvalidateCache moved before the cycle
\* check
InstallFormulaInvalidatingFirst(created, cell, formula, transitive_ref_cells, inv) ==
    IF cell \in transitive_ref_cells
    THEN Outcome(SheetOf(created.sheet.cells_, inv.heap), "CircularDependencyException",
                 HasDangling(created.sheet.heap, transitive_ref_cells))
    ELSE Outcome(SheetOf(created.sheet.cells_,
                         SetFormula(inv.heap, cell, formula, created.out_cells)),
                 "ok",
                 \/ HasDangling(created.sheet.heap, transitive_ref_cells)
                 \/ HasDangling(created.sheet.heap, inv.visited)
                 \/ HasDangling(created.sheet.heap, created.sheet.heap[cell].out_cells_))

\* the end of the formula branch of SetCell: the cycle check on the
\* transitive references, then InvalidateCache and SetFormula
InstallFormula(created, cell, formula, transitive_ref_cells, inv) ==
    IF cell \in transitive_ref_cells
    THEN Outcome(created.sheet, "CircularDependencyException",
                 HasDangling(created.sheet.heap, transitive_ref_cells))
    ELSE Outcome(SheetOf(created.sheet.cells_,
                         SetFormula(inv.heap, cell, formula, created.out_cells)),
                 "ok",
                 \/ HasDangling(created.sheet.heap, transitive_ref_cells)
                 \/ HasDangling(created.sheet.heap, inv.visited)
                 \/ HasDangling(created.sheet.heap, created.sheet.heap[cell].out_cells_))

\* the formula branch of SetCell once the referenced cells exist
CheckAndInstall(created, cell, formula) ==
    InstallFormula(created, cell, formula,
                   TransitiveReferencedCells(created.sheet.heap, created.out_cells),
                   InvalidateCache(created.sheet.heap, cell))

\* the formula branch of SetCell after ParseFormula has returned
SetCellFormula(sheet, cell, formula, reuse) ==
    CheckAndInstall(
        CreateReferenced(sheet, FormulaGetReferencedCells(formula), reuse, {}),
        cell, formula)

SetPlainTextAfter(sheet, cell, text, inv) ==
    Outcome(SheetOf(sheet.cells_, SetPlainText(inv.heap, cell, text)),
            "ok",
            \/ HasDangling(sheet.heap, inv.visited)
            \/ HasDangling(sheet.heap, sheet.heap[cell].out_cells_))

\* the plain-text branch of SetCell
SetCellText(sheet, cell, text) ==
    SetPlainTextAfter(sheet, cell, text, InvalidateCache(sheet.heap, cell))

SetCellParsed(got, parsed, reuse) ==
    IF parsed.thrown THEN Outcome(got.sheet, "FormulaException", FALSE)
    ELSE SetCellFormula(got.sheet, got.ptr, FormulaOf(parsed.tree), reuse)

\* SetCell once GetOrCreateCell(pos) has returned
SetCellOf(got, text, reuse) ==
    IF Len(text) > 0 /\ Head(text) = kFormulaSign
    THEN SetCellParsed(got, ParseFormula(Tail(text)), reuse)
    ELSE SetCellText(got.sheet, got.ptr, text)

SheetSetCell(sheet, pos, text, reuse) ==
    IF ~IsValid(pos) THEN Outcome(sheet, "InvalidPositionException", FALSE)
    ELSE SetCellOf(GetOrCreateCell(sheet, pos, reuse), text, reuse)

\* Sheet::GetCell: the pointer returned (0 is nullptr) for a valid position
SheetGetCell(sheet, pos) ==
    IF OutOfRange(sheet.cells_, pos) THEN 0 ELSE At(sheet.cells_, pos)

\* the test of the inner loops of MaxNonEmptyCellRowSize / ColSize
HasText(sheet, i, j) ==
    At(sheet.cells_, Pos(i, j)) # 0 /\ sheet.heap[At(sheet.cells_, Pos(i, j))].text_ # << >>

\* the loop of MaxNonEmptyCellRowSize that counts the rows as soon as a row
\* holds any cell
RECURSIVE RowSizeCountingEmptyTexts(_, _)
RowSizeCountingEmptyTexts(sheet, i) ==
    IF i < 0 THEN 0
    ELSE IF \E j \in 0..(Cols(sheet.cells_) - 1) : At(sheet.cells_, Pos(i, j)) # 0 THEN i + 1
    ELSE RowSizeCountingEmptyTexts(sheet, i - 1)

\* the loop of Sheet::MaxNonEmptyCellRowSize from row i down
RECURSIVE RowSizeFrom(_, _)
RowSizeFrom(sheet, i) ==
    IF i < 0 THEN 0
    ELSE IF \E j \in 0..(Cols(sheet.cells_) - 1) : HasText(sheet, i, j) THEN i + 1
    ELSE RowSizeFrom(sheet, i - 1)

MaxNonEmptyCellRowSize(sheet) == RowSizeFrom(sheet, Rows(sheet.cells_) - 1)

\* the loop of Sheet::MaxNonEmptyCellColSize from column j down
RECURSIVE ColSizeFrom(_, _)
ColSizeFrom(sheet, j) ==
    IF j < 0 THEN 0
    ELSE IF \E i \in 0..(Rows(sheet.cells_) - 1) : HasText(sheet, i, j) THEN j + 1
    ELSE ColSizeFrom(sheet, j - 1)

MaxNonEmptyCellColSize(sheet) == ColSizeFrom(sheet, Cols(sheet.cells_) - 1)

\* Sheet::GetPrintableSize
GetPrintableSize(sheet) ==
    [rows |-> MaxNonEmptyCellRowSize(sheet), cols |-> MaxNonEmptyCellColSize(sheet)]

\* cells_[pos.row][pos.col] is an element of the grid
InGrid(grid, pos) ==
    /\ 0 <= pos.row /\ pos.row < Rows(grid)
    /\ 0 <= pos.col /\ pos.col < Cols(grid)

\* the positions ClearCell indexes cells_ with: pos, when OutOfRange(pos) has
\* not made it return
ClearCellIndexes(grid, pos) == IF OutOfRange(grid, pos) THEN {} ELSE {pos}

\* Sheet::ClearCell.  OutOfRange compares with the upper limits only: with a
\* negative row or column the unchecked cells_[pos.row][pos.col] names
\* memory outside the vectors and reset() is applied to what is found there,
\* which is undefined behaviour: the call returns with the sheet as it was,
\* or the program crashes
SheetClearCell(sheet, pos) ==
    IF ClearCellIndexes(sheet.cells_, pos) = {} THEN Outcome(sheet, "ok", FALSE)
    ELSE IF ~InGrid(sheet.cells_, pos) THEN Outcome(sheet, "ok", TRUE)
    ELSE LET grid == SetPtr(sheet.cells_, pos, 0)
         IN  Outcome(SheetOf(grid, Collect(grid, sheet.heap)), "ok", FALSE)

\* the positions {i, j} with i in [r1, r2) and j in [c1, c2), row by row
RowMajor(r1, r2, c1, c2) ==
    IF r2 <= r1 \/ c2 <= c1 THEN << >>
    ELSE [n \in 1..((r2 - r1) * (c2 - c1)) |->
             Pos(r1 + ((n - 1) \div (c2 - c1)), c1 + ((n - 1) % (c2 - c1)))]

\* the heap after every cell of the grid has been handed to f
MapCells(sheet, f(_)) ==
    SheetOf(sheet.cells_, [p \in DOMAIN sheet.heap |-> f(sheet.heap[p])])

\* one empty owning pointer whatever the count
EmptyVectorOfOne(count) == << 0 >>

\* count empty owning pointers
EmptyVector(count) == [i \in 1..count |-> 0]

InsertAt(vector, before, items) ==
    SubSeq(vector, 1, before) \o items \o SubSeq(vector, before + 1, Len(vector))

EraseRange(vector, first, last) ==
    SubSeq(vector, 1, first) \o SubSeq(vector, last + 1, Len(vector))

\* the largest int
IntMax == 2^30 - 1 + 2^30

\* the offsets from begin() at which an insertion into a vector of extent
\* elements inserts: before, when the call has neither thrown nor returned
InsertOffsets(extent, before, count) ==
    IF count > kMaxRows - extent \/ extent <= before THEN {} ELSE {before}

\* Sheet::InsertRows for 0 <= count.  Rows() + count is an
\* addition of two ints: when it overflows the behaviour is undefined.  The
\* comparison may hold as for the exact sum, or (wraps) the sum wraps to a
\* negative int, the check passes and the call goes on: it returns when
\* Rows() <= before, and otherwise reserves count rows, which it does not
\* survive.  With a negative before the call inserts at cells_.begin() +
\* before, in front of the vector's storage, which it does not survive
\* either
SheetInsertRows(sheet, before, count, wraps) ==
    LET grid == sheet.cells_
    IN  IF count > IntMax - Rows(grid)
        THEN IF ~wraps THEN Outcome(sheet, "TableTooBigException", FALSE)
             ELSE IF Rows(grid) <= before THEN Outcome(sheet, "ok", FALSE)
             ELSE Outcome(sheet, "crash", TRUE)
        ELSE IF Rows(grid) + count > kMaxRows THEN Outcome(sheet, "TableTooBigException", FALSE)
        ELSE IF Rows(grid) <= before THEN Outcome(sheet, "ok", FALSE)
        ELSE IF before < 0 THEN Outcome(sheet, "crash", TRUE)
        ELSE LET handled == MapCells(sheet, LAMBDA c : CellHandleInsertedRows(c, before, count))
                 cells_to_insert == [i \in 1..count |-> EmptyVector(Cols(grid))]
             IN  Outcome(SheetOf(InsertAt(grid, before, cells_to_insert), handled.heap),
                         "ok", FALSE)

\* Sheet::InsertCols for 0 <= count, with the same overflow of
\* Cols() + count; with a negative before every row is inserted into at
\* begin() + before
SheetInsertCols(sheet, before, count, wraps) ==
    LET grid == sheet.cells_
    IN  IF count > IntMax - Cols(grid)
        THEN IF ~wraps THEN Outcome(sheet, "TableTooBigException", FALSE)
             ELSE IF Cols(grid) <= before THEN Outcome(sheet, "ok", FALSE)
             ELSE Outcome(sheet, "crash", TRUE)
        ELSE IF Cols(grid) + count > kMaxCols THEN Outcome(sheet, "TableTooBigException", FALSE)
        ELSE IF Cols(grid) <= before THEN Outcome(sheet, "ok", FALSE)
        ELSE IF before < 0 /\ Rows(grid) > 0 THEN Outcome(sheet, "crash", TRUE)
        ELSE LET handled == MapCells(sheet, LAMBDA c : CellHandleInsertedCols(c, before, count))
             IN  Outcome(SheetOf([i \in 1..Rows(grid) |->
                                     InsertAt(grid[i], before, EmptyVector(count))],
                                 handled.heap),
                         "ok", FALSE)

\* Sheet::DeleteCell for a valid position: the heap with the cell unlinked
\* (the owning pointer is reset by the caller's Collect), and whether a
\* dangling pointer was used
DeleteCell(sheet, pos) ==
    IF OutOfRange(sheet.cells_, pos) \/ At(sheet.cells_, pos) = 0
    THEN [sheet |-> sheet, ub |-> FALSE]
    ELSE LET cell == At(sheet.cells_, pos)
             ins == sheet.heap[cell].in_cells_
             outs == sheet.heap[cell].out_cells_
             unlinked == RemoveFromInCellsOf(
                             RemoveFromOutCellsOf(sheet.heap, ins, cell), outs, cell)
             grid == SetPtr(sheet.cells_, pos, 0)
         IN  [sheet |-> SheetOf(grid, Collect(grid, unlinked)),
              ub |-> HasDangling(sheet.heap, ins \cup outs)]

RECURSIVE DeleteCells(_, _, _)
DeleteCells(sheet, positions, ub) ==
    IF Len(positions) = 0 THEN [sheet |-> sheet, ub |-> ub]
    ELSE LET res == DeleteCell(sheet, Head(positions))
         IN  DeleteCells(res.sheet, Tail(positions), ub \/ res.ub)

\* Sheet::HandleDeletedRowsForCell / HandleDeletedColsForCell for a valid
\* position, given the cell's handler
HandleDeletedForCell(sheet, pos, handler(_)) ==
    IF OutOfRange(sheet.cells_, pos) \/ At(sheet.cells_, pos) = 0
    THEN [sheet |-> sheet, ub |-> FALSE]
    ELSE LET cell == At(sheet.cells_, pos)
             res == handler(sheet.heap[cell])
             heap == MapPut(sheet.heap, cell, res.cell)
             inv == InvalidateCache(heap, cell)
         IN  IF res.invalidate
             THEN [sheet |-> SheetOf(sheet.cells_, inv.heap),
                   ub |-> HasDangling(heap, inv.visited)]
             ELSE [sheet |-> SheetOf(sheet.cells_, heap), ub |-> FALSE]

RECURSIVE HandleDeletedForCells(_, _, _, _)
HandleDeletedForCells(sheet, positions, handler(_), ub) ==
    IF Len(positions) = 0 THEN [sheet |-> sheet, ub |-> ub]
    ELSE LET res == HandleDeletedForCell(sheet, Head(positions), handler)
         IN  HandleDeletedForCells(res.sheet, Tail(positions), handler, ub \/ res.ub)

\* Sheet::DeleteRows that deletes one row when count <= 0
SheetDeleteRowsAtLeastOne(sheet, first, count) ==
    LET grid == sheet.cells_
        last == Min(Rows(grid), first + Max(count, 1))
        deleted == DeleteCells(sheet, RowMajor(first, last, 0, Cols(grid)), FALSE)
        handled == HandleDeletedForCells(
                       deleted.sheet,
                       RowMajor(0, first, 0, Cols(grid))
                           \o RowMajor(last, Rows(grid), 0, Cols(grid)),
                       LAMBDA c : CellHandleDeletedRows(c, first, Max(count, 1)),
                       deleted.ub)
        erased == EraseRange(handled.sheet.cells_, first, last)
    IN  IF Rows(grid) <= first THEN Outcome(sheet, "ok", FALSE)
        ELSE Outcome(SheetOf(erased, Collect(erased, handled.sheet.heap)), "ok", handled.ub)

\* Sheet::DeleteRows for 0 <= first
SheetDeleteRows(sheet, first, count) ==
    LET grid == sheet.cells_
        last == Min(Rows(grid), first + count)
        deleted == DeleteCells(sheet, RowMajor(first, last, 0, Cols(grid)), FALSE)
        handled == HandleDeletedForCells(
                       deleted.sheet,
                       RowMajor(0, first, 0, Cols(grid))
                           \o RowMajor(last, Rows(grid), 0, Cols(grid)),
                       LAMBDA c : CellHandleDeletedRows(c, first, count),
                       deleted.ub)
        erased == EraseRange(handled.sheet.cells_, first, last)
    IN  IF Rows(grid) <= first \/ count <= 0 THEN Outcome(sheet, "ok", FALSE)
        ELSE Outcome(SheetOf(erased, Collect(erased, handled.sheet.heap)), "ok", handled.ub)

\* Sheet::DeleteCols for 0 <= first
SheetDeleteCols(sheet, first, count) ==
    LET grid == sheet.cells_
        last == Min(Cols(grid), first + count)
        deleted == DeleteCells(sheet, RowMajor(0, Rows(grid), first, last), FALSE)
        left == HandleDeletedForCells(
                    deleted.sheet, RowMajor(0, Rows(grid), 0, first),
                    LAMBDA c : CellHandleDeletedCols(c, first, count), deleted.ub)
        right == HandleDeletedForCells(
                     left.sheet, RowMajor(0, Rows(grid), last, Cols(grid)),
                     LAMBDA c : CellHandleDeletedCols(c, first, count), left.ub)
        erased == [i \in 1..Rows(grid) |-> EraseRange(right.sheet.cells_[i], first, last)]
    IN  IF Cols(grid) <= first \/ count <= 0 THEN Outcome(sheet, "ok", FALSE)
        ELSE Outcome(SheetOf(erased, Collect(erased, right.sheet.heap)), "ok", right.ub)

(***************************************************************************)
(* The state machine: one sheet driven by its public operations, and one   *)
(* CellParamCache driven by its handlers.                                  *)
(***************************************************************************)
VARIABLES
    cells_,       \* Sheet::cells_, the grid of owning pointers
    heap,         \* the cells the grid owns: address |-> fields
    crashed,      \* the process has died (a crash on a dangling pointer, or a
                  \* GetValue that recursed without end)
    last,         \* the last call made on the sheet and how it ended
    steps,        \* the number of calls made
    param_cache,  \* a CellParamCache on its own
    handled,      \* the last handler called on param_cache: its arguments,
                  \* the cache it was called on and what it returned
    conv,         \* a Position and a string under conversion: what was given,
                  \* the last conversion made, and both values
    parsing       \* a call of ParseFormula under way: the expression, the
                  \* exit callbacks still to come, the listener's builder,
                  \* the tree built and its rebuilt expression

vars == << cells_, heap, crashed, last, steps, param_cache, handled, conv, parsing >>

\* the number of calls of a run
MaxSteps == 3

\* the number of calls of a run over one row of cells
MaxDeepSteps == 4

\* the number of handler calls on a cache
MaxHandled == 2

\* the number of calls in a run that deletes and inserts rows
MaxShiftSteps == 4

\* the rows and columns the calls address
MaxRow == 2

MaxCol == 1

\* the most positions a cache starts with
MaxRefs == 3

InputPositions == {Pos(r, c) : r \in 0..MaxRow, c \in 0..MaxCol}

\* positions outside the sheet's limits
InvalidPositions == {InvalidPos, Pos(kMaxRows, 0), Pos(0, kMaxCols)}

InputTexts ==
    { << >>,
      << "2" >>,
      << "x" >>,
      << "=", "A", "1" >>,
      << "=", "B", "1" >>,
      << "=", "A", "2", "+", "A", "3" >>,
      << "=", "1", "/", "0", "+", "B", "1" >>,
      << "=", "1", "+" >> }

InputCounts == 1..2

\* the counts of the deletions: small ones, none and a negative one
DeleteCounts == InputCounts \cup {0, -1}

\* the counts of the insertions: small ones, the limit, and the largest int
InsertCounts == InputCounts \cup {kMaxRows, IntMax}

\* the inputs of the runs over the first row
DeepPositions == {Pos(0, c) : c \in 0..MaxCol}

DeepTexts == { << "2" >>, << "=", "A", "1" >>, << "=", "B", "1" >> }

\* the inputs of the runs that delete and insert rows
ShiftPositions == {Pos(1, 0), Pos(2, 0), Pos(0, 1), Pos(1, 1)}

ShiftTexts ==
    { << "2" >>,
      << "=", "A", "1", "+", "A", "2" >>,
      << "=", "A", "2", "+", "A", "3" >> }

\* the positions a cache under test may hold
CachePositions == {Pos(r, c) : r \in 0..MaxRow, c \in 0..MaxRow}

sheet == SheetOf(cells_, heap)

NotHandled == [op |-> "none"]

NoTree == [null |-> TRUE]

NotParsing ==
    [stage |-> "none", round |-> 0, expression |-> << >>, events |-> << >>,
     builder |-> NewTreeBuilder, first |-> NoTree, tree |-> NoTree, text |-> << >>]

NotConverted == [input |-> "none", op |-> "none", pos |-> InvalidPos, str |-> << >>]

InitSheet ==
    /\ cells_ = << >>
    /\ heap = EmptyMap
    /\ crashed = FALSE
    /\ last = [op |-> "CreateSheet", result |-> "ok"]
    /\ steps = 0

Init ==
    /\ InitSheet
    /\ param_cache = EmptyCellParamCache
    /\ handled = NotHandled
    /\ conv = NotConverted
    /\ parsing = NotParsing

CanCall(max) == ~crashed /\ steps < max

\* the call returns (or throws) with the outcome out, or, when it used a
\* dangling pointer, may crash instead
Finish(call, out, crash) ==
    /\ crash => out.ub
    /\ steps' = steps + 1
    /\ UNCHANGED << param_cache, handled, conv, parsing >>
    /\ IF crash
       THEN /\ crashed' = TRUE
            /\ last' = [call EXCEPT !.result = "crash"]
            /\ UNCHANGED << cells_, heap >>
       ELSE /\ crashed' = FALSE
            /\ last' = [call EXCEPT !.result = out.result]
            /\ cells_' = out.sheet.cells_
            /\ heap' = out.sheet.heap

\* the record of a call: its arguments, the cells that held a cached value
\* when it was made, and how it ended
Call(op, pos, text, a, b) ==
    [op |-> op, pos |-> pos, text |-> text, a |-> a, b |-> b,
     cached |-> {p \in DOMAIN heap : heap[p].cache_.has}, result |-> "ok"]

SetCell(pos, text, reuse, crash, max) ==
    /\ CanCall(max)
    /\ reuse => DanglingPtrs(heap) # {}
    /\ Finish(Call("SetCell", pos, text, 0, 0), SheetSetCell(sheet, pos, text, reuse), crash)

ClearCell(pos, max) ==
    /\ CanCall(max)
    /\ \E crash \in BOOLEAN :
           Finish(Call("ClearCell", pos, << >>, 0, 0), SheetClearCell(sheet, pos), crash)

InsertRows(before, count, max) ==
    /\ CanCall(max)
    /\ \E wraps \in BOOLEAN :
        /\ wraps => count > IntMax - Rows(cells_)
        /\ Finish(Call("InsertRows", InvalidPos, << >>, before, count),
                  SheetInsertRows(sheet, before, count, wraps),
                  SheetInsertRows(sheet, before, count, wraps).ub)

InsertCols(before, count, max) ==
    /\ CanCall(max)
    /\ \E wraps \in BOOLEAN :
        /\ wraps => count > IntMax - Cols(cells_)
        /\ Finish(Call("InsertCols", InvalidPos, << >>, before, count),
                  SheetInsertCols(sheet, before, count, wraps),
                  SheetInsertCols(sheet, before, count, wraps).ub)

DeleteRows(first, count, crash, max) ==
    /\ CanCall(max)
    /\ Finish(Call("DeleteRows", InvalidPos, << >>, first, count),
              SheetDeleteRows(sheet, first, count), crash)

DeleteCols(first, count, crash, max) ==
    /\ CanCall(max)
    /\ Finish(Call("DeleteCols", InvalidPos, << >>, first, count),
              SheetDeleteCols(sheet, first, count), crash)

\* what GetCell(pos)->GetValue() leaves behind
Returned(pos, got) ==
    /\ steps' = steps + 1
    /\ UNCHANGED << cells_, param_cache, handled, conv, parsing >>
    /\ IF got.diverged
       THEN /\ crashed' = TRUE
            /\ heap' = heap
            /\ last' = [Call("GetValue", pos, << >>, 0, 0) EXCEPT !.result = "crash"]
       ELSE /\ crashed' = FALSE
            /\ heap' = StoreCaches(heap, got.filled)
            /\ last' = Call("GetValue", pos, << >>, 0, 0)

\* GetCell(pos) throws
Threw(pos, exception) ==
    /\ steps' = steps + 1
    /\ crashed' = FALSE
    /\ last' = [Call("GetCell", pos, << >>, 0, 0) EXCEPT !.result = exception]
    /\ UNCHANGED << cells_, heap, param_cache, handled, conv, parsing >>

\* GetCell(pos)->GetValue() on an existing cell, or GetCell(pos) with an
\* invalid position
GetValue(pos, max) ==
    /\ CanCall(max)
    /\ IF ~IsValid(pos) THEN Threw(pos, "InvalidPositionException")
       ELSE /\ SheetGetCell(sheet, pos) # 0
            /\ Returned(pos, CellGetValue(sheet, SheetGetCell(sheet, pos), {}))

Next ==
    \/ \E pos \in InputPositions \cup InvalidPositions, text \in InputTexts,
          reuse, crash \in BOOLEAN :
           SetCell(pos, text, reuse, crash, MaxSteps)
    \/ \E pos \in InputPositions : ClearCell(pos, MaxSteps)
    \/ \E before \in 0..MaxRow, count \in InsertCounts : InsertRows(before, count, MaxSteps)
    \/ \E before \in 0..MaxCol, count \in InsertCounts : InsertCols(before, count, MaxSteps)
    \/ \E first \in 0..MaxRow, count \in DeleteCounts, crash \in BOOLEAN :
           DeleteRows(first, count, crash, MaxSteps)
    \/ \E first \in 0..MaxCol, count \in DeleteCounts, crash \in BOOLEAN :
           DeleteCols(first, count, crash, MaxSteps)
    \/ \E pos \in InputPositions \cup InvalidPositions : GetValue(pos, MaxSteps)

Spec == Init /\ [][Next]_vars

\* longer runs over the cells of the first row
NextDeep ==
    \/ \E pos \in DeepPositions, text \in DeepTexts, reuse, crash \in BOOLEAN :
           SetCell(pos, text, reuse, crash, MaxDeepSteps)
    \/ \E pos \in DeepPositions : ClearCell(pos, MaxDeepSteps)
    \/ \E pos \in DeepPositions : GetValue(pos, MaxDeepSteps)
    \/ \E first \in 0..MaxCol, crash \in BOOLEAN : DeleteCols(first, 1, crash, MaxDeepSteps)

SpecDeep == Init /\ [][NextDeep]_vars

\* longer runs that fill two rows, delete and insert a row and read values
NextShift ==
    \/ \E pos \in ShiftPositions, text \in ShiftTexts, reuse, crash \in BOOLEAN :
           SetCell(pos, text, reuse, crash, MaxShiftSteps)
    \/ \E first \in 0..1, crash \in BOOLEAN : DeleteRows(first, 1, crash, MaxShiftSteps)
    \/ \E before \in 0..1 : InsertRows(before, 1, MaxShiftSteps)
    \/ \E pos \in ShiftPositions : GetValue(pos, MaxShiftSteps)

SpecShift == Init /\ [][NextShift]_vars

\* the number of calls of a run that sets texts and formulas and reads values
MaxValueSteps == 4

\* plain texts: empty, numeric, not numeric, escaped, numeric at the start
PlainTexts ==
    { << >>,
      << "2" >>,
      << "x" >>,
      << "'", "x" >>,
      << "2", "x" >>,
      << "'", "2" >> }

\* formulas over the first two cells of the row
ValueFormulas ==
    { << "=", "A", "1" >>,
      << "=", "A", "1", "+", "B", "1" >>,
      << "=", "B", "1", "+", "A", "1" >>,
      << "=", "-", "A", "1" >>,
      << "=", "(", "A", "1", "+", "B", "1", ")", "*", "2" >>,
      << "=", "2", "/", "A", "1" >> }

\* runs over A1 (a text), B1 (a division by zero) and C1 (a formula over both)
NextValue ==
    \/ \E text \in PlainTexts, reuse, crash \in BOOLEAN :
           SetCell(Pos(0, 0), text, reuse, crash, MaxValueSteps)
    \/ \E reuse, crash \in BOOLEAN :
           SetCell(Pos(0, 1), << "=", "1", "/", "0" >>, reuse, crash, MaxValueSteps)
    \/ \E text \in ValueFormulas, reuse, crash \in BOOLEAN :
           SetCell(Pos(0, 2), text, reuse, crash, MaxValueSteps)
    \/ ClearCell(Pos(0, 0), MaxValueSteps)
    \/ \E crash \in BOOLEAN : DeleteCols(0, 1, crash, MaxValueSteps)
    \/ \E col \in 0..2 : GetValue(Pos(0, col), MaxValueSteps)

SpecValue == Init /\ [][NextValue]_vars

(***************************************************************************)
(* Calls with positions and offsets of any sign on small sheets            *)
(***************************************************************************)
\* the number of calls of a run
MaxBoundsSteps == 3

BoundsTexts == { << "2" >>, << "=", "A", "1" >>, << "=", "B", "2" >> }

NextBounds ==
    \/ \E pos \in InputPositions \cup InvalidPositions, text \in BoundsTexts,
          reuse, crash \in BOOLEAN :
           SetCell(pos, text, reuse, crash, MaxBoundsSteps)
    \/ \E pos \in InputPositions \cup InvalidPositions : ClearCell(pos, MaxBoundsSteps)
    \/ \E before \in (-1)..MaxRow, count \in InputCounts :
           InsertRows(before, count, MaxBoundsSteps)
    \/ \E before \in (-1)..MaxCol, count \in InputCounts :
           InsertCols(before, count, MaxBoundsSteps)
    \/ \E pos \in InputPositions \cup InvalidPositions : GetValue(pos, MaxBoundsSteps)

SpecBounds == Init /\ [][NextBounds]_vars

(***************************************************************************)
(* The handlers of CellParamCache applied to caches of up to MaxRefs       *)
(* positions.                                                              *)
(***************************************************************************)
RECURSIVE CacheOfPositions(_, _)
CacheOfPositions(cache0, positions) ==
    IF Len(positions) = 0 THEN cache0
    ELSE CacheOfPositions(GetOrInsert(cache0, Head(positions)).cache, Tail(positions))

\* the positions of a set, row by row
RECURSIVE InOrder(_)
InOrder(positions) ==
    IF positions = {} THEN << >>
    ELSE LET first == CHOOSE p \in positions :
                          \A q \in positions :
                              p.row < q.row \/ (p.row = q.row /\ p.col <= q.col)
         IN  << first >> \o InOrder(positions \ {first})

InitCache ==
    /\ InitSheet
    /\ handled = NotHandled
    /\ conv = NotConverted
    /\ parsing = NotParsing
    /\ \E positions \in SUBSET CachePositions :
           /\ Cardinality(positions) <= MaxRefs
           /\ param_cache = CacheOfPositions(EmptyCellParamCache, InOrder(positions))

Handled(op, a, b, res) ==
    /\ steps' = steps + 1
    /\ param_cache' = res.cache
    /\ handled' = [op |-> op, a |-> a, b |-> b, before |-> param_cache,
                   deleted |-> res.deleted, updated |-> res.updated]
    /\ UNCHANGED << cells_, heap, crashed, last, conv, parsing >>

WithNoneDeleted(res) == [cache |-> res.cache, deleted |-> 0, updated |-> res.updated]

HandleInsertedRows(before, count) ==
    /\ steps < MaxHandled
    /\ Handled("HandleInsertedRows", before, count,
               WithNoneDeleted(CacheHandleInsertedRows(param_cache, before, count)))

HandleInsertedCols(before, count) ==
    /\ steps < MaxHandled
    /\ Handled("HandleInsertedCols", before, count,
               WithNoneDeleted(CacheHandleInsertedCols(param_cache, before, count)))

HandleDeletedRows(start, count) ==
    /\ steps < MaxHandled
    /\ Handled("HandleDeletedRows", start, count,
               CacheHandleDeletedRows(param_cache, start, count))

HandleDeletedCols(start, count) ==
    /\ steps < MaxHandled
    /\ Handled("HandleDeletedCols", start, count,
               CacheHandleDeletedCols(param_cache, start, count))

NextCache ==
    \/ \E before \in 0..MaxRow, count \in InputCounts : HandleInsertedRows(before, count)
    \/ \E before \in 0..MaxRow, count \in InputCounts : HandleInsertedCols(before, count)
    \/ \E start \in 0..MaxRow, count \in InputCounts : HandleDeletedRows(start, count)
    \/ \E start \in 0..MaxRow, count \in InputCounts : HandleDeletedCols(start, count)

SpecCache == InitCache /\ [][NextCache]_vars

(***************************************************************************)
(* Position::ToString and Position::FromString on their own: a position   *)
(* or a string is given, and the two conversions are applied in turn.      *)
(***************************************************************************)
\* the number of conversions of a run
MaxConversions == 2

\* columns and rows around the changes of length of their names, and the
\* last ones
SampleCols == {0, 1, 25, 26, 27, 51, 52, 701, 702, 703, 16383}

SampleRows == {0, 8, 9, 98, 99, 16383}

SamplePositions == {Pos(r, c) : r \in SampleRows, c \in SampleCols} \cup InvalidPositions

ColumnParts ==
    { << >>, << "A" >>, << "Z" >>, << "A", "A" >>, << "A", "Z" >>, << "Z", "Z" >>,
      << "A", "A", "A" >>, << "X", "F", "D" >>, << "X", "F", "E" >>,
      << "Z", "Z", "Z" >>, << "A", "A", "A", "A" >>, << "a" >>, << "A", "1", "A" >> }

RowParts ==
    { << >>, << "1" >>, << "0" >>, << "0", "1" >>, << "1", "0" >>, << "9" >>,
      << "1", "6", "3", "8", "4" >>, << "1", "6", "3", "8", "5" >>,
      << "9", "9", "9", "9", "9" >>, << "1", "0", "0", "0", "0", "0" >>,
      << "1", "A" >>, << "1", " " >>, << "-", "1" >> }

SampleStrings == {col_part \o row_part : col_part \in ColumnParts, row_part \in RowParts}

InitPosition ==
    /\ InitSheet
    /\ param_cache = EmptyCellParamCache
    /\ handled = NotHandled
    /\ parsing = NotParsing
    /\ \/ \E pos \in SamplePositions :
              conv = [input |-> "position", op |-> "given", pos |-> pos, str |-> << >>]
       \/ \E str \in SampleStrings :
              conv = [input |-> "string", op |-> "given", pos |-> InvalidPos, str |-> str]

\* str = conv.pos.ToString()
PositionToString ==
    /\ steps < MaxConversions
    /\ \/ conv.op = "given" /\ conv.input = "position"
       \/ conv.op = "FromString"
    /\ steps' = steps + 1
    /\ conv' = [input |-> conv.input, op |-> "ToString",
                pos |-> conv.pos, str |-> ToString(conv.pos)]
    /\ UNCHANGED << cells_, heap, crashed, last, param_cache, handled, parsing >>

\* pos = Position::FromString(conv.str)
PositionFromString ==
    /\ steps < MaxConversions
    /\ \/ conv.op = "given" /\ conv.input = "string"
       \/ conv.op = "ToString"
    /\ steps' = steps + 1
    /\ conv' = [input |-> conv.input, op |-> "FromString",
                pos |-> FromString(conv.str), str |-> conv.str]
    /\ UNCHANGED << cells_, heap, crashed, last, param_cache, handled, parsing >>

NextPosition ==
    \/ PositionToString
    \/ PositionFromString

SpecPosition == InitPosition /\ [][NextPosition]_vars

(***************************************************************************)
(* ParseFormula on its own: an expression is given, the parser walks its   *)
(* parse tree and calls the listener's exit callback of every node in      *)
(* post-order, the listener's TreeBuilder yields the tree, the tree        *)
(* rebuilds its expression, and the rebuilt expression is parsed again.    *)
(***************************************************************************)
\* the number of times an expression is parsed: as given, and as rebuilt
MaxRounds == 2

Atoms == { << "1" >>, << "A", "1" >> }

BinarySigns == { "+", "-", "*", "/" }

UnarySigns == { "+", "-" }

\* 1+A1, 1-A1, 1*A1, 1/A1
Operations == { << "1", sign, "A", "1" >> : sign \in BinarySigns }

InParens(expressions) == { << "(" >> \o e \o << ")" >> : e \in expressions }

Operands ==
    Atoms \cup InParens(Atoms) \cup InParens(Operations)
        \cup InParens(InParens({ << "1", "+", "A", "1" >> }))
        \cup { << "-", "1" >>, << "+", "1" >>, << "(", "-", "1", ")" >> }

\* expressions of more levels
DeepExpressions ==
    { << "(", "1", "+", "2", ")", "*", "3" >>,
      << "(", "1", "*", "2", ")", "+", "3" >>,
      << "1", "*", "(", "(", "1", "+", "A", "1", ")", "/", "A", "1", ")" >>,
      << "-", "(", "(", "1", "+", "A", "1", ")", "*", "A", "1", ")" >>,
      << "1", "/", "(", "(", "1", "-", "A", "1", ")", "*", "(", "1", "+", "A", "1", ")", ")" >>,
      << "1", "-", "(", "A", "1", "-", "(", "1", "-", "A", "1", ")", ")" >>,
      << "(", "1", "+", "A", "1", ")", "*", "(", "1", "-", "A", "1", ")", "/", "(", "1", "*", "A", "1", ")" >>,
      << "A", "1", "+", "B", "2", "*", "(", "A", "1", "+", "B", "2", ")" >> }

\* expressions ParseFormula rejects
InvalidExpressions ==
    { << >>,
      << "1", "+" >>,
      << "(", "1" >>,
      << "A", "0" >>,
      << "Z", "Z", "Z", "1" >>,
      << "1", ")" >>,
      << "*", "1" >> }

InputExpressions ==
    Operands \cup Operations
        \cup { lhs \o << sign >> \o rhs : lhs \in Operands, rhs \in Operands, sign \in BinarySigns }
        \cup { << sign >> \o e : sign \in UnarySigns, e \in Operands }
        \cup DeepExpressions \cup InvalidExpressions

InitFormula ==
    /\ InitSheet
    /\ param_cache = EmptyCellParamCache
    /\ handled = NotHandled
    /\ conv = NotConverted
    /\ \E expression \in InputExpressions :
           parsing = [NotParsing EXCEPT !.stage = "given", !.expression = expression]

Parsing(next) ==
    /\ parsing' = next
    /\ UNCHANGED << cells_, heap, crashed, last, steps, param_cache, handled, conv >>

\* ParseFormula up to the tree walk: the parser bails out on a syntax
\* error, and the walk starts with a new listener otherwise
StartWalk(expression, parsed) ==
    IF ~parsed.ok
    THEN Parsing([parsing EXCEPT !.stage = "thrown", !.round = @ + 1,
                                 !.expression = expression])
    ELSE Parsing([parsing EXCEPT !.stage = "walking", !.round = @ + 1,
                                 !.expression = expression,
                                 !.events = parsed.ev, !.builder = NewTreeBuilder])

\* ParseFormula(expression), for the expression given or the one rebuilt
ParseExpression ==
    /\ parsing.round < MaxRounds
    /\ \/ /\ parsing.stage = "given"
          /\ StartWalk(parsing.expression, ParseMain(parsing.expression))
       \/ /\ parsing.stage = "rebuilt"
          /\ StartWalk(parsing.text, ParseMain(parsing.text))

\* the builder after an exit callback, or FormulaException out of it
AfterExit(builder) ==
    IF builder.thrown
    THEN Parsing([parsing EXCEPT !.stage = "thrown", !.events = << >>,
                                 !.builder = builder])
    ELSE Parsing([parsing EXCEPT !.events = Tail(@), !.builder = builder])

\* the next exit callback of AstFormulaListener during the tree walk
ExitNode ==
    /\ parsing.stage = "walking"
    /\ Len(parsing.events) > 0
    /\ AfterExit(Listener(parsing.builder, Head(parsing.events)))

\* listener.GetResult() after the walk: TreeBuilder::Build
BuildTree ==
    /\ parsing.stage = "walking"
    /\ Len(parsing.events) = 0
    /\ Parsing([parsing EXCEPT !.stage = "built",
                              !.tree = Build(parsing.builder),
                              !.first = IF parsing.round = 1
                                        THEN Build(parsing.builder) ELSE @])

\* Formula::GetExpression of the tree built
GetExpression ==
    /\ parsing.stage = "built"
    /\ Parsing([parsing EXCEPT !.stage = "rebuilt",
                              !.text = TreeBuildExpression(parsing.tree)])

NextFormula ==
    \/ ParseExpression
    \/ ExitNode
    \/ BuildTree
    \/ GetExpression

SpecFormula == InitFormula /\ [][NextFormula]_vars

(***************************************************************************)
(* The handlers of Formula on their own: a formula is parsed and then told *)
(* of insertions and deletions of rows and columns; parsing.tree is its    *)
(* tree_, parsing.text the expression it rebuilds, and handled the last    *)
(* call with the tree before it and the HandlingResult returned.           *)
(***************************************************************************)
\* the number of handler calls of a run
MaxHandlings == 3

\* A1, A2+A3, A1+A3, B1+C1, A1+C1, A1+B2*A1, A2+B3, 1+2
HandledExpressions ==
    { << "A", "1" >>,
      << "A", "2", "+", "A", "3" >>,
      << "A", "1", "+", "A", "3" >>,
      << "B", "1", "+", "C", "1" >>,
      << "A", "1", "+", "C", "1" >>,
      << "A", "1", "+", "B", "2", "*", "A", "1" >>,
      << "A", "2", "+", "B", "3" >>,
      << "1", "+", "2" >> }

\* the counts a handler is called with: none, and small ones
HandledCounts == {0} \cup InputCounts

InitHandling ==
    /\ InitSheet
    /\ param_cache = EmptyCellParamCache
    /\ handled = NotHandled
    /\ conv = NotConverted
    /\ \E expression \in HandledExpressions :
           parsing = [NotParsing EXCEPT
                         !.stage = "built",
                         !.expression = expression,
                         !.tree = ParseFormula(expression).tree,
                         !.text = TreeBuildExpression(ParseFormula(expression).tree)]

\* a handler of Formula has returned res
FormulaHandled(op, a, b, res) ==
    /\ steps < MaxHandlings
    /\ steps' = steps + 1
    /\ parsing' = [parsing EXCEPT !.tree = res.formula.tree_,
                                  !.text = FormulaGetExpression(res.formula)]
    /\ handled' = [op |-> op, a |-> a, b |-> b, before |-> parsing.tree,
                   result |-> res.result]
    /\ UNCHANGED << cells_, heap, crashed, last, param_cache, conv >>

FormulaInsertedRows(before, count) ==
    FormulaHandled("HandleInsertedRows", before, count,
                   FormulaHandleInsertedRows(FormulaOf(parsing.tree), before, count))

FormulaInsertedCols(before, count) ==
    FormulaHandled("HandleInsertedCols", before, count,
                   FormulaHandleInsertedCols(FormulaOf(parsing.tree), before, count))

FormulaDeletedRows(first, count) ==
    FormulaHandled("HandleDeletedRows", first, count,
                   FormulaHandleDeletedRows(FormulaOf(parsing.tree), first, count))

FormulaDeletedCols(first, count) ==
    FormulaHandled("HandleDeletedCols", first, count,
                   FormulaHandleDeletedCols(FormulaOf(parsing.tree), first, count))

NextHandling ==
    \/ \E before \in 0..MaxRow, count \in HandledCounts : FormulaInsertedRows(before, count)
    \/ \E before \in 0..MaxCol, count \in HandledCounts : FormulaInsertedCols(before, count)
    \/ \E first \in 0..MaxRow, count \in HandledCounts : FormulaDeletedRows(first, count)
    \/ \E first \in 0..MaxCol, count \in HandledCounts : FormulaDeletedCols(first, count)

SpecHandling == InitHandling /\ [][NextHandling]_vars

(***************************************************************************)
(* The dependency graph                                                    *)
(***************************************************************************)
\* the cells of the sheet
Live == DOMAIN heap

\* the positions of the grid
GridPositions == {Pos(r, c) : r \in 0..(Rows(cells_) - 1), c \in 0..(Cols(cells_) - 1)}

\* the address of the cell at a position, 0 when there is none
CellAt(pos) == IF OutOfRange(cells_, pos) THEN 0 ELSE At(cells_, pos)

SeqToSet(sequence) == {sequence[i] : i \in 1..Len(sequence)}

\* the positions the formula of the cell at pos references
ReferencedBy(pos) ==
    IF CellAt(pos) = 0 THEN {}
    ELSE SeqToSet(CellGetReferencedCells(heap[CellAt(pos)]))

\* the positions reached from a set of positions through the references of
\* the formulas found there
RECURSIVE ReferencedThrough(_, _)
ReferencedThrough(frontier, reached) ==
    IF frontier \subseteq reached THEN reached
    ELSE ReferencedThrough(UNION {ReferencedBy(pos) : pos \in frontier} \ (reached \cup frontier),
                           reached \cup frontier)

\* C1: after every mutation of the sheet has returned, for all cells X and
\* Y of the sheet, X is in Y's out-edges if and only if Y is in X's in-edges.
C1_GraphConsistent ==
    \A x \in Live, y \in Live :
        (x \in heap[y].out_cells_) <=> (y \in heap[x].in_cells_)

\* C2: once ClearCell, DeleteRows or DeleteCols has returned, no cell's
\* in-edges or out-edges contain a cell that has been destroyed.
C2_NoEdgeToDestroyedCell ==
    last.op \in {"ClearCell", "DeleteRows", "DeleteCols"} =>
        \A p \in Live : heap[p].in_cells_ \cup heap[p].out_cells_ \subseteq Live

\* C3: in every reachable state no cell's formula references, directly or
\* through other formulas, the position of that same cell.
C3_NoCycle ==
    \A pos \in GridPositions : pos \notin ReferencedThrough(ReferencedBy(pos), {})

\* the cells reached from a set of cells through out-edges; a destroyed
\* cell has none
RECURSIVE OutReachable(_, _)
OutReachable(frontier, reached) ==
    IF frontier \subseteq reached THEN reached
    ELSE OutReachable(
             UNION {IF p \in Live THEN heap[p].out_cells_ ELSE {} : p \in frontier}
                 \ (reached \cup frontier),
             reached \cup frontier)

\* the positions a formula text references
ReferencesOf(text) == SeqToSet(TreeGetReferencedCells(ParseFormula(Tail(text)).tree))

\* SetCell(pos, text) gives the cell at pos a formula from whose referenced
\* cells that cell is reached through out-edges
ClosesCycle(pos, text) ==
    /\ IsValid(pos)
    /\ Len(text) > 0
    /\ Head(text) = kFormulaSign
    /\ ~ParseFormula(Tail(text)).thrown
    /\ \/ pos \in ReferencesOf(text)
       \/ /\ CellAt(pos) # 0
          /\ CellAt(pos) \in OutReachable({CellAt(ref) : ref \in ReferencesOf(text)} \ {0}, {})

\* C4: SetCell(C, "=f") raises CircularDependencyException whenever C is
\* reached through out-edges from the cells f references.
C4_CycleRaises ==
    [][(last'.op = "SetCell" /\ ClosesCycle(last'.pos, last'.text))
           => last'.result = "CircularDependencyException"]_vars

Rejections == {"CircularDependencyException", "FormulaException", "InvalidPositionException"}

\* the address of the cell at a position of a grid, 0 when there is none
CellIn(grid, pos) == IF OutOfRange(grid, pos) THEN 0 ELSE At(grid, pos)

\* C5: a rejected SetCell leaves the text, formula, cached value, in-edges
\* and out-edges of every cell that existed before unchanged and every such
\* cell in its place; the cells it adds are empty placeholders.
C5_RejectedSetCellChangesNothing ==
    [][(last'.op = "SetCell" /\ last'.result \in Rejections) =>
           /\ \A p \in DOMAIN heap : p \in DOMAIN heap' /\ heap'[p] = heap[p]
           /\ \A p \in (DOMAIN heap') \ (DOMAIN heap) : heap'[p] = NewCell
           /\ \A pos \in GridPositions :
                  CellAt(pos) # 0 => CellIn(cells_', pos) = CellAt(pos)]_vars

\* C5 happens: SetCell was rejected for a cycle on a sheet that holds a
\* cached value
C5_Witness ==
    /\ last.op = "SetCell"
    /\ last.result = "CircularDependencyException"
    /\ \E p \in Live : heap[p].cache_.has

\* the heap with every cache empty
Uncached == [p \in DOMAIN heap |-> [heap[p] EXCEPT !.cache_ = NullOpt]]

\* the value of a cell evaluated from scratch, and the one GetValue returns
FromScratch(p) == CellGetValue(SheetOf(cells_, Uncached), p, {})

Memoized(p) == CellGetValue(sheet, p, {})

\* C6: after any sequence of calls GetValue of every cell returns the value
\* that evaluating the cell from scratch on the current sheet returns.
C6_MemoizationTransparent ==
    \A p \in Live :
        ~FromScratch(p).diverged =>
            ~Memoized(p).diverged /\ Memoized(p).v = FromScratch(p).v

\* the cells reached from a set of cells through in-edges
RECURSIVE InReachable(_, _)
InReachable(frontier, reached) ==
    IF frontier \subseteq reached THEN reached
    ELSE InReachable(
             UNION {IF p \in Live THEN heap[p].in_cells_ ELSE {} : p \in frontier}
                 \ (reached \cup frontier),
             reached \cup frontier)

\* C7 as stated: when a successful SetCell(C, text) has returned, C and every
\* cell reached from C through in-edges hold no cached value.
C7_AllDependentsInvalidated ==
    (last.op = "SetCell" /\ last.result = "ok") =>
        \A p \in InReachable({CellAt(last.pos)}, {}) \cap Live : ~heap[p].cache_.has

\* the cells reached from a set of cells through the in-edges of the cells
\* that hold a cached value
RECURSIVE InReachableThroughCached(_, _)
InReachableThroughCached(frontier, reached) ==
    IF frontier \subseteq reached THEN reached
    ELSE InReachableThroughCached(
             UNION {IF p \in Live /\ heap[p].cache_.has THEN heap[p].in_cells_ ELSE {} :
                        p \in frontier}
                 \ (reached \cup frontier),
             reached \cup frontier)

\* C7 amended: when a successful SetCell(C, text) returns, C holds no cached
\* value, and neither does any cell reached from C through in-edges along
\* cells that each held a cached value when the call was made.
C7_CachedDependentsInvalidated ==
    [][(last'.op = "SetCell" /\ last'.result = "ok") =>
           \A p \in InReachableThroughCached({CellIn(cells_', last'.pos)}, {})
                        \cap DOMAIN heap' :
               ~heap'[p].cache_.has]_vars

\* C7 happens: SetCell has succeeded on a cell that a formula of another
\* cell references, and that cell holds no cached value
C7_Witness ==
    /\ last.op = "SetCell"
    /\ last.result = "ok"
    /\ \E p \in heap[CellAt(last.pos)].in_cells_ \cap Live :
           /\ ~heap[p].formula_.null
           /\ p \in last.cached
           /\ ~heap[p].cache_.has

\* C8: every cell that holds a formula has the text "=" followed by the
\* expression rebuilt from the formula.
C8_TextIsRebuiltExpression ==
    \A p \in Live :
        ~heap[p].formula_.null =>
            heap[p].text_ = << kFormulaSign >> \o FormulaGetExpression(heap[p].formula_)

\* C8 happens: InsertRows has shifted the rows of a sheet in which a formula
\* references a cell
C8_Witness ==
    /\ last.op = "InsertRows"
    /\ last.a = 0
    /\ Rows(cells_) > last.b
    /\ \E p \in Live : ~heap[p].formula_.null /\ CellGetReferencedCells(heap[p]) # << >>

\* C9: after every mutation of the sheet, the out-edges of every cell are
\* exactly the cells at the positions GetReferencedCells returns.
C9_OutEdgesAreReferencedCells ==
    \A p \in Live :
        heap[p].out_cells_ = {CellAt(pos) : pos \in SeqToSet(CellGetReferencedCells(heap[p]))}

(***************************************************************************)
(* The handlers of CellParamCache                                          *)
(***************************************************************************)
\* the entries of a cache: the position of the key and the slot it names
Entries(cache) ==
    {[pos |-> Pos(r, c), ptr |-> cache.cell_params_[r][c]] :
         <<r, c>> \in {rc \in (DOMAIN cache.cell_params_) \X (0..kMaxCols) :
                          rc[2] \in DOMAIN cache.cell_params_[rc[1]]}}

\* every slot holds the position of its key
WellFormed(cache) == \A e \in Entries(cache) : cache.slots[e.ptr] = Some(e.pos)

\* the coordinate a handler works on, and a position moved down by count
Coordinate(pos, op) == IF op = "HandleDeletedRows" THEN pos.row ELSE pos.col

ShiftedDown(pos, op, count) ==
    IF op = "HandleDeletedRows" THEN Pos(pos.row - count, pos.col)
    ELSE Pos(pos.row, pos.col - count)

\* C10: after HandleDeletedRows(first, count) (and HandleDeletedCols), every
\* entry in [first, first+count) has its slot cleared and is removed, every
\* entry at r >= first+count is still present, keyed and valued at r-count,
\* and GetReferencedCells returns exactly the positions below first and the
\* shifted positions past the deleted range.
C10_DeletedRangeRemovedRestShifted ==
    (handled.op \in {"HandleDeletedRows", "HandleDeletedCols"} /\ WellFormed(handled.before)) =>
        /\ \A e \in Entries(handled.before) :
               /\ (handled.a <= Coordinate(e.pos, handled.op)
                       /\ Coordinate(e.pos, handled.op) < handled.a + handled.b) =>
                      /\ ~param_cache.slots[e.ptr].has
                      /\ \A f \in Entries(param_cache) : f.ptr # e.ptr
               /\ Coordinate(e.pos, handled.op) >= handled.a + handled.b =>
                      /\ [pos |-> ShiftedDown(e.pos, handled.op, handled.b), ptr |-> e.ptr]
                             \in Entries(param_cache)
                      /\ param_cache.slots[e.ptr]
                             = Some(ShiftedDown(e.pos, handled.op, handled.b))
        /\ SeqToSet(CacheGetReferencedCells(param_cache))
               = {e.pos : e \in {f \in Entries(handled.before) :
                                     Coordinate(f.pos, handled.op) < handled.a}}
                 \cup {ShiftedDown(e.pos, handled.op, handled.b) :
                           e \in {f \in Entries(handled.before) :
                                      Coordinate(f.pos, handled.op) >= handled.a + handled.b}}

(***************************************************************************)
(* Insertion of rows and columns                                           *)
(***************************************************************************)
\* the slots of the references of a cell's formula, in the order of creation
SlotsOf(cell) ==
    IF cell.formula_.null THEN << >> ELSE cell.formula_.tree_.cell_cache_.slots

\* the number of rows (InsertRows, DeleteRows) or columns of a grid
Extent(grid, op) == IF op \in {"InsertRows", "DeleteRows"} THEN Rows(grid) ELSE Cols(grid)

\* where InsertRows / InsertCols (before, count) is to move a position
ShiftedUp(pos, op, before, count) ==
    IF op = "InsertRows"
    THEN (IF pos.row >= before THEN Pos(pos.row + count, pos.col) ELSE pos)
    ELSE (IF pos.col >= before THEN Pos(pos.row, pos.col + count) ELSE pos)

SlotShiftedUp(slot, op, before, count) ==
    IF slot.has THEN Some(ShiftedUp(Pos(slot.row, slot.col), op, before, count)) ELSE slot

\* C11: InsertRows(before, count) with 0 <= before < rows (and InsertCols)
\* moves every cell at or past before up by count and leaves the others in
\* place, renames every formula reference at or past before by count with
\* the text re-derived, so that each formula references the same cells.
C11_InsertShiftsCellsAndReferences ==
    [][(/\ last'.op \in {"InsertRows", "InsertCols"}
        /\ last'.result = "ok"
        /\ last'.a < Extent(cells_, last'.op)) =>
           /\ Extent(cells_', last'.op) = Extent(cells_, last'.op) + last'.b
           /\ \A pos \in GridPositions :
                  CellIn(cells_', ShiftedUp(pos, last'.op, last'.a, last'.b)) = CellAt(pos)
           /\ DOMAIN heap' = DOMAIN heap
           /\ \A p \in DOMAIN heap :
                  /\ SlotsOf(heap'[p])
                         = [i \in 1..Len(SlotsOf(heap[p])) |->
                                SlotShiftedUp(SlotsOf(heap[p])[i], last'.op, last'.a, last'.b)]
                  /\ heap'[p].text_
                         = IF heap[p].formula_.null THEN heap[p].text_
                           ELSE << kFormulaSign >> \o FormulaGetExpression(heap'[p].formula_)
                  /\ {CellIn(cells_', q) : q \in SeqToSet(CellGetReferencedCells(heap'[p]))}
                         = {CellAt(q) : q \in SeqToSet(CellGetReferencedCells(heap[p]))}]_vars

\* C12: InsertRows and InsertCols change no value: GetValue of every cell
\* that existed before the call returns afterwards what it returned before.
C12_InsertKeepsValues ==
    [][(last'.op \in {"InsertRows", "InsertCols"} /\ last'.result = "ok") =>
           \A p \in DOMAIN heap :
               ~Memoized(p).diverged =>
                   /\ p \in DOMAIN heap'
                   /\ ~CellGetValue(SheetOf(cells_', heap'), p, {}).diverged
                   /\ CellGetValue(SheetOf(cells_', heap'), p, {}).v = Memoized(p).v]_vars

(***************************************************************************)
(* Deletion of rows and columns                                            *)
(***************************************************************************)
\* the coordinate of a position that a call on rows or on columns works on
Along(pos, op) == IF op \in {"InsertRows", "DeleteRows"} THEN pos.row ELSE pos.col

\* the slots of a cell that reference the rows (columns) [first, first+count)
SlotsInto(cell, op, first, count) ==
    {i \in 1..Len(SlotsOf(cell)) :
         /\ SlotsOf(cell)[i].has
         /\ Along(Pos(SlotsOf(cell)[i].row, SlotsOf(cell)[i].col), op) >= first
         /\ Along(Pos(SlotsOf(cell)[i].row, SlotsOf(cell)[i].col), op) < first + count}

\* C13: DeleteRows / DeleteCols raise no exception for a surviving formula
\* that references a deleted row or column: every such reference becomes a
\* deleted slot, rebuilt as #REF! in the cell text and evaluated to
\* Error(Ref), and the cached value of the cell is dropped.
C13_DeletedReferencesDegrade ==
    [][(/\ last'.op \in {"DeleteRows", "DeleteCols"}
        /\ last'.result # "crash"
        /\ last'.a < Extent(cells_, last'.op)) =>
           /\ last'.result = "ok"
           /\ \A p \in (DOMAIN heap) \cap (DOMAIN heap') :
                  \A i \in SlotsInto(heap[p], last'.op, last'.a, last'.b) :
                      /\ ~heap'[p].formula_.null
                      /\ ~SlotsOf(heap'[p])[i].has
                      /\ BuildExpression(OfCellParamPtr(i), SlotsOf(heap'[p])) = REF_ERROR_STR
                      /\ heap'[p].text_
                             = << kFormulaSign >> \o FormulaGetExpression(heap'[p].formula_)
                      /\ Evaluate(OfCellParamPtr(i), SlotsOf(heap'[p]),
                                  SheetOf(cells_', heap'), {}).v = ErrorValue("Ref")
                      /\ ~heap'[p].cache_.has]_vars

\* the first call of a run was SetCell(pos, text) and DeleteRows(0, 1) is
\* the second
DeletesFirstRowAfter(pos, text) ==
    /\ steps = 1
    /\ last.op = "SetCell" /\ last.pos = pos /\ last.text = text /\ last.result = "ok"
    /\ last'.op = "DeleteRows" /\ last'.a = 0 /\ last'.b = 1 /\ last'.result = "ok"

\* the cell at pos after the step has the text and GetValue returns the value
ThenHolds(pos, text, value) ==
    /\ CellIn(cells_', pos) # 0
    /\ heap'[CellIn(cells_', pos)].text_ = text
    /\ CellGetValue(SheetOf(cells_', heap'), CellIn(cells_', pos), {}).v = value

\* C14 as stated: on an empty sheet, after SetCell(B1, "=A1+A2") and
\* DeleteRows(0, 1), the text of B1 is "=#REF!+A1" and its value Error(Ref).
C14_B1AfterDeleteRows ==
    [][DeletesFirstRowAfter(Pos(0, 1), << "=", "A", "1", "+", "A", "2" >>) =>
           ThenHolds(Pos(0, 1), << kFormulaSign >> \o REF_ERROR_STR \o << "+", "A", "1" >>,
                     ErrorValue("Ref"))]_vars

\* C14 amended: on an empty sheet, after SetCell(B2, "=A1+A2") and
\* DeleteRows(0, 1), the text of B1 is "=#REF!+A1" and its value Error(Ref).
C14_B2AfterDeleteRows ==
    [][DeletesFirstRowAfter(Pos(1, 1), << "=", "A", "1", "+", "A", "2" >>) =>
           ThenHolds(Pos(0, 1), << kFormulaSign >> \o REF_ERROR_STR \o << "+", "A", "1" >>,
                     ErrorValue("Ref"))]_vars

\* C14 happens: the second call of a run was DeleteRows(0, 1) and B1 now
\* holds a formula that starts with #REF!
C14_Witness ==
    /\ steps = 2
    /\ last.op = "DeleteRows" /\ last.a = 0 /\ last.b = 1 /\ last.result = "ok"
    /\ CellAt(Pos(0, 1)) # 0
    /\ heap[CellAt(Pos(0, 1))].text_ = << kFormulaSign >> \o REF_ERROR_STR \o << "+", "A", "1" >>

\* the end of the range DeleteRows / DeleteCols (first, count) erases
LastOf(grid, op, first, count) == Min(Extent(grid, op), first + count)

\* a position moved down by n rows (columns)
MovedDown(pos, op, n) ==
    IF op = "DeleteRows" THEN Pos(pos.row - n, pos.col) ELSE Pos(pos.row, pos.col - n)

\* the cell keeps what it held: its text when it has no formula, else the
\* tree of its formula
Intact(before, after) ==
    /\ after.formula_.null = before.formula_.null
    /\ before.formula_.null => after.text_ = before.text_
    /\ ~before.formula_.null => after.formula_.tree_.root_ = before.formula_.tree_.root_

\* C15: DeleteRows(first, count) with first < rows and count > 0 (and
\* DeleteCols), last being min(rows, first+count): every cell in [first, last)
\* is destroyed and is in no in-edge or out-edge set afterwards, every cell at
\* or past last ends last-first lower with its contents, the cells before
\* first stay in place, and the row count decreases by last-first.
C15_DeleteErasesRangeAndShiftsRest ==
    [][(/\ last'.op \in {"DeleteRows", "DeleteCols"}
        /\ last'.result = "ok"
        /\ last'.a < Extent(cells_, last'.op)) =>
           LET n == LastOf(cells_, last'.op, last'.a, last'.b) - last'.a
           IN  /\ Extent(cells_', last'.op) = Extent(cells_, last'.op) - n
               /\ \A pos \in GridPositions :
                      LET x == Along(pos, last'.op)
                          p == CellAt(pos)
                      IN  /\ x < last'.a => CellIn(cells_', pos) = p
                          /\ x >= last'.a + n =>
                                 CellIn(cells_', MovedDown(pos, last'.op, n)) = p
                          /\ (x >= last'.a /\ x < last'.a + n /\ p # 0) =>
                                 /\ p \notin DOMAIN heap'
                                 /\ \A q \in DOMAIN heap' :
                                        p \notin heap'[q].in_cells_ \cup heap'[q].out_cells_
                          /\ (p # 0 /\ ~(x >= last'.a /\ x < last'.a + n)) =>
                                 p \in DOMAIN heap' /\ Intact(heap[p], heap'[p])]_vars

(***************************************************************************)
(* The printable size                                                      *)
(***************************************************************************)
\* the positions that hold a cell with a non-empty text
TextPositions == {pos \in GridPositions : CellAt(pos) # 0 /\ heap[CellAt(pos)].text_ # << >>}

\* C16: in every reachable state GetPrintableSize() is the tight bounding box
\* of the cells with a non-empty text: 1 + the largest row index and 1 + the
\* largest column index of such a cell, (0, 0) when there is none.
C16_PrintableSizeIsTightBox ==
    /\ TextPositions = {} => GetPrintableSize(sheet) = [rows |-> 0, cols |-> 0]
    /\ TextPositions # {} =>
           /\ \E pos \in TextPositions : GetPrintableSize(sheet).rows = pos.row + 1
           /\ \E pos \in TextPositions : GetPrintableSize(sheet).cols = pos.col + 1
           /\ \A pos \in TextPositions :
                  /\ pos.row < GetPrintableSize(sheet).rows
                  /\ pos.col < GetPrintableSize(sheet).cols

\* C16 happens: a cell with a text and, outside the box of the texts, a cell
\* without one
C16_Witness ==
    /\ TextPositions # {}
    /\ \E pos \in GridPositions :
           /\ CellAt(pos) # 0
           /\ pos.row >= GetPrintableSize(sheet).rows

(***************************************************************************)
(* Rejections                                                              *)
(***************************************************************************)
\* C17: SetCell(pos, text) and GetCell(pos) with a position outside
\* 0 <= row < 16384, 0 <= col < 16384 raise InvalidPositionException and
\* leave the sheet unchanged.
C17_InvalidPositionRejected ==
    [][(/\ last'.op \in {"SetCell", "GetCell", "GetValue"}
        /\ ~(/\ 0 <= last'.pos.row /\ last'.pos.row < kMaxRows
             /\ 0 <= last'.pos.col /\ last'.pos.col < kMaxCols)) =>
           /\ last'.result = "InvalidPositionException"
           /\ cells_' = cells_
           /\ heap' = heap]_vars

\* C17 happens: on a sheet that holds a cell, SetCell was rejected for a
\* position past the last row or column
C17_Witness ==
    /\ last.op = "SetCell"
    /\ last.result = "InvalidPositionException"
    /\ (last.pos.row >= kMaxRows \/ last.pos.col >= kMaxCols)
    /\ DOMAIN heap # {}

\* C18: InsertRows(before, count) raises TableTooBigException whenever the
\* row count plus count exceeds 16384, and InsertCols likewise for the
\* column count; no cell, reference, cache or dimension is changed then.
C18_TableTooBigRejected ==
    [][(/\ last'.op \in {"InsertRows", "InsertCols"}
        /\ last'.b > kMaxRows - Extent(cells_, last'.op)) =>
           /\ last'.result = "TableTooBigException"
           /\ cells_' = cells_
           /\ heap' = heap]_vars

(***************************************************************************)
(* The names of positions                                                  *)
(***************************************************************************)
\* C19: for every valid position p (0 <= row < 16384, 0 <= col < 16384),
\* Position::FromString(p.ToString()) == p.
C19_FromStringInvertsToString ==
    [][(/\ conv.op = "ToString"
        /\ conv'.op = "FromString"
        /\ 0 <= conv.pos.row /\ conv.pos.row < 16384
        /\ 0 <= conv.pos.col /\ conv.pos.col < 16384) =>
           conv'.pos = conv.pos]_vars

\* the last position, given as a position, has been written and read back
C19_Witness ==
    /\ conv.input = "position"
    /\ conv.op = "FromString"
    /\ conv.str = << "X", "F", "D", "1", "6", "3", "8", "4" >>
    /\ conv.pos = Pos(16383, 16383)

UpperCase == {Letters[i] : i \in 1..26}

Digits == {DigitChars[i] : i \in 1..10}

\* str is a word of [A-Z]{1,3}[1-9][0-9]{0,4}
InCellLanguage(str) ==
    \E letters \in 1..3, digits \in 1..5 :
        /\ Len(str) = letters + digits
        /\ \A i \in 1..letters : str[i] \in UpperCase
        /\ str[letters + 1] \in Digits \ {"0"}
        /\ \A i \in (letters + 2)..(letters + digits) : str[i] \in Digits

\* the number a word over A..Z names as a column: A is 1, Z is 26, AA is 27
RECURSIVE ColumnNumber(_)
ColumnNumber(word) ==
    IF Len(word) = 0 THEN 0
    ELSE 26 * ColumnNumber(SubSeq(word, 1, Len(word) - 1))
         + (CHOOSE i \in 1..26 : Letters[i] = word[Len(word)])

\* the number a word of decimal digits names
RECURSIVE RowNumber(_)
RowNumber(word) ==
    IF Len(word) = 0 THEN 0
    ELSE 10 * RowNumber(SubSeq(word, 1, Len(word) - 1))
         + (CHOOSE i \in 0..9 : DigitChars[i + 1] = word[Len(word)])

\* a word of the language names a column and a row of the sheet
WithinLimits(str) ==
    /\ ColumnNumber(SelectSeq(str, LAMBDA c : c \in UpperCase)) <= 16384
    /\ RowNumber(SelectSeq(str, LAMBDA c : c \in Digits)) <= 16384

ValidPosition(pos) ==
    /\ 0 <= pos.row /\ pos.row < 16384
    /\ 0 <= pos.col /\ pos.col < 16384

\* C20: Position::FromString accepts exactly the strings matching
\* [A-Z]{1,3}[1-9][0-9]{0,4}: every such string yields a valid position, and
\* every other string yields the sentinel invalid position (-1,-1).
C20_AcceptsExactlyCellLanguage ==
    conv.op = "FromString" =>
        IF InCellLanguage(conv.str) THEN ValidPosition(conv.pos)
        ELSE conv.pos = Pos(-1, -1)

\* C20 as the code has it: Position::FromString accepts exactly the strings
\* matching [A-Z]{1,3}[1-9][0-9]{0,4} whose column is at most XFD (the
\* 16384th) and whose row number is at most 16384; every such string yields
\* a valid position and every other string the sentinel (-1,-1).
C20_AcceptsCellLanguageWithinLimits ==
    conv.op = "FromString" =>
        IF InCellLanguage(conv.str) /\ WithinLimits(conv.str)
        THEN ValidPosition(conv.pos)
        ELSE conv.pos = Pos(-1, -1)

\* a word of the language beyond the last column has been rejected
C20_Witness ==
    /\ conv.input = "string"
    /\ conv.op = "FromString"
    /\ conv.str = << "X", "F", "E", "1" >>
    /\ conv.pos = Pos(-1, -1)

(***************************************************************************)
(* The parentheses of a formula                                            *)
(***************************************************************************)
\* a node with every cell leaf replaced by the position of its slot
RECURSIVE Resolved(_, _)
Resolved(node, slots) ==
    CASE node.k = "Literal" -> node
      [] node.k = "Cell" -> [k |-> "Cell", param |-> slots[node.ptr]]
      [] node.k = "Parentheses" ->
            [k |-> "Parentheses", content |-> Resolved(node.content, slots)]
      [] node.k = "UnaryOp" ->
            [k |-> "UnaryOp", op |-> node.op, token |-> Resolved(node.token, slots)]
      [] node.k = "BinaryOp" ->
            [k |-> "BinaryOp", op |-> node.op,
             lhs |-> Resolved(node.lhs, slots), rhs |-> Resolved(node.rhs, slots)]

Structure(tree) == Resolved(tree.root_, tree.cell_cache_.slots)

\* C21: for any syntactically valid formula s, rebuilding the built tree and
\* parsing the rebuilt text gives a structurally equal tree:
\* build(parse(rebuild(f))) == f for every tree f produced by the builder.
C21_RebuiltParsesToSameTree ==
    parsing.round = 2 =>
        /\ parsing.stage # "thrown"
        /\ parsing.stage = "built" => Structure(parsing.tree) = Structure(parsing.first)

\* the table of the parentheses to retain: the parent's operator, the side
\* of the parenthesised child and the operator of the child
Retained(parent_op, side, child_op) ==
    CASE parent_op \in {"PLUS", "MINUS"} -> child_op \in {"ADD", "SUB"}
      [] parent_op = "ADD" -> FALSE
      [] parent_op = "SUB" -> side = "right" /\ child_op \in {"ADD", "SUB"}
      [] parent_op = "MUL" -> child_op \in {"ADD", "SUB"}
      [] parent_op = "DIV" -> side = "right" \/ child_op \in {"ADD", "SUB"}

\* the child as the table has it under its parent
Wrapped(child, parent_op, side) ==
    IF child.k # "Parentheses" THEN child
    ELSE IF /\ child.content.k = "BinaryOp"
            /\ Retained(parent_op, side, child.content.op)
         THEN child
         ELSE child.content

\* the node the table has on top of the stack after an exit callback
Expected(event, stack) ==
    CASE event.e = "Parens" ->
            IF Top(stack).k \in {"Literal", "Cell", "Parentheses"} THEN Top(stack)
            ELSE [k |-> "Parentheses", content |-> Top(stack)]
      [] event.e = "Unary" ->
            [k |-> "UnaryOp", op |-> event.op,
             token |-> Wrapped(Top(stack), event.op, "only")]
      [] event.e = "Binary" ->
            [k |-> "BinaryOp", op |-> event.op,
             lhs |-> Wrapped(Top(Pop(stack)), event.op, "left"),
             rhs |-> Wrapped(Top(stack), event.op, "right")]

\* C22: when a parenthesized child is wrapped under a unary operator or as
\* an operand of a binary operator, the parentheses are retained exactly in
\* the cases of the table and erased otherwise; parentheses around a
\* literal, a cell reference or parentheses are always erased; "(1+2)*3"
\* keeps its text and "(1*2)+3" becomes "1*2+3".
C22_ParenthesesRetainedAsInTable ==
    [][/\ (/\ parsing.stage = "walking"
           /\ parsing'.stage = "walking"
           /\ Len(parsing'.events) < Len(parsing.events)
           /\ Head(parsing.events).e \in {"Parens", "Unary", "Binary"}) =>
              Top(parsing'.builder.node_stack_) =
                  Expected(Head(parsing.events), parsing.builder.node_stack_)
       /\ (parsing.stage = "built" /\ parsing'.stage = "rebuilt") =>
              /\ parsing.expression = << "(", "1", "+", "2", ")", "*", "3" >> => parsing'.text = << "(", "1", "+", "2", ")", "*", "3" >>
              /\ parsing.expression = << "(", "1", "*", "2", ")", "+", "3" >> => parsing'.text = << "1", "*", "2", "+", "3" >>]_vars

\* the parentheses of (1+2)*3 have been retained in its rebuilt text
C22_Witness ==
    /\ parsing.stage = "rebuilt"
    /\ parsing.round = 1
    /\ parsing.expression = << "(", "1", "+", "2", ")", "*", "3" >>
    /\ parsing.text = << "(", "1", "+", "2", ")", "*", "3" >>
    /\ parsing.tree.root_.lhs.k = "Parentheses"

\* a node without its Parentheses nodes
RECURSIVE Bare(_)
Bare(node) ==
    CASE node.k = "Parentheses" -> Bare(node.content)
      [] node.k = "UnaryOp" -> [node EXCEPT !.token = Bare(@)]
      [] node.k = "BinaryOp" -> [node EXCEPT !.lhs = Bare(@), !.rhs = Bare(@)]
      [] OTHER -> node

\* the nodes obtained from a node by removing one pair of parentheses
RECURSIVE WithoutOnePair(_)
WithoutOnePair(node) ==
    CASE node.k = "Parentheses" ->
            {node.content}
                \cup {[node EXCEPT !.content = inner] : inner \in WithoutOnePair(node.content)}
      [] node.k = "UnaryOp" ->
            {[node EXCEPT !.token = inner] : inner \in WithoutOnePair(node.token)}
      [] node.k = "BinaryOp" ->
            {[node EXCEPT !.lhs = inner] : inner \in WithoutOnePair(node.lhs)}
                \cup {[node EXCEPT !.rhs = inner] : inner \in WithoutOnePair(node.rhs)}
      [] OTHER -> {}

\* the text without the pair is a formula of the same operations on the
\* same operands
SameWithout(tree, without) ==
    LET reparsed == ParseFormula(BuildExpression(without, tree.cell_cache_.slots))
    IN  /\ ~reparsed.thrown
        /\ Bare(Structure(reparsed.tree)) = Bare(Structure(tree))

\* C23: the rebuilt expression of any built tree is minimal: it contains a
\* pair of parentheses only where removing that pair would change the
\* tree's semantics under normal arithmetic precedence and associativity.
C23_RebuiltExpressionMinimal ==
    parsing.stage = "built" =>
        \A without \in WithoutOnePair(parsing.tree.root_) :
            ~SameWithout(parsing.tree, without)

(***************************************************************************)
(* The values of formulas and texts                                        *)
(***************************************************************************)
FormulaCells == {p \in DOMAIN heap : ~heap[p].formula_.null}

\* the nodes of a tree
RECURSIVE SubNodes(_)
SubNodes(node) ==
    {node} \cup
        CASE node.k = "Parentheses" -> SubNodes(node.content)
          [] node.k = "UnaryOp" -> SubNodes(node.token)
          [] node.k = "BinaryOp" -> SubNodes(node.lhs) \cup SubNodes(node.rhs)
          [] OTHER -> {}

NodesOf(p) == SubNodes(heap[p].formula_.tree_.root_)

\* the evaluation of a node of the formula of cell p during p's GetValue
ValueOf(node, p) ==
    Evaluate(node, heap[p].formula_.tree_.cell_cache_.slots, sheet, {p})

\* the value of a node of the formula of p is composed as claimed
ComposedLeftFirst(node, p) ==
    CASE node.k = "BinaryOp" ->
            IF ValueOf(node.lhs, p).v.t = "error"
            THEN /\ ValueOf(node, p).v = ValueOf(node.lhs, p).v
                 /\ ValueOf(node, p).filled = ValueOf(node.lhs, p).filled
            ELSE ValueOf(node.rhs, p).v.t = "error" =>
                     ValueOf(node, p).v = ValueOf(node.rhs, p).v
      [] node.k = "UnaryOp" ->
            ValueOf(node.token, p).v.t = "error" =>
                ValueOf(node, p).v = ValueOf(node.token, p).v
      [] node.k = "Parentheses" ->
            ValueOf(node, p).v = ValueOf(node.content, p).v
      [] OTHER -> TRUE

\* C24: formula evaluation composes errors with left-operand priority: a
\* binary node returns the left operand's error if the left operand is an
\* error (without evaluating the right), otherwise the right operand's error
\* if that is an error; a unary node returns its child's error unchanged;
\* parentheses return the inner value.
C24_ErrorsComposeLeftFirst ==
    \A p \in FormulaCells :
        \A node \in NodesOf(p) :
            ~ValueOf(node, p).diverged => ComposedLeftFirst(node, p)

\* C1 = A1+B1 has been read with A1 a text that is no number and B1 a
\* division by zero: the value is the error of A1 and B1 was not evaluated
C24_Witness ==
    /\ last.op = "GetValue" /\ last.result = "ok" /\ last.pos = Pos(0, 2)
    /\ CellAt(Pos(0, 0)) # 0 /\ CellAt(Pos(0, 1)) # 0 /\ CellAt(Pos(0, 2)) # 0
    /\ heap[CellAt(Pos(0, 0))].text_ = << "x" >>
    /\ heap[CellAt(Pos(0, 1))].text_ = << "=", "1", "/", "0" >>
    /\ heap[CellAt(Pos(0, 2))].text_ = << "=", "A", "1", "+", "B", "1" >>
    /\ heap[CellAt(Pos(0, 2))].cache_ = [has |-> TRUE, v |-> [t |-> "error", e |-> "Value"]]
    /\ ~heap[CellAt(Pos(0, 1))].cache_.has

\* a text is a number: an optional sign and decimal digits
Numeric(text) ==
    LET body == IF Len(text) > 0 /\ text[1] \in {"+", "-"}
                THEN SubSeq(text, 2, Len(text)) ELSE text
    IN  /\ Len(body) > 0
        /\ \A i \in 1..Len(body) : body[i] \in Digits

\* the number a numeric text names, as a double
NumberOf(text) ==
    IF text[1] = "-" THEN [fin |-> TRUE, num |-> -RowNumber(SubSeq(text, 2, Len(text))), den |-> 1]
    ELSE IF text[1] = "+" THEN [fin |-> TRUE, num |-> RowNumber(SubSeq(text, 2, Len(text))), den |-> 1]
    ELSE [fin |-> TRUE, num |-> RowNumber(text), den |-> 1]

Zero == [t |-> "double", d |-> [fin |-> TRUE, num |-> 0, den |-> 1]]

\* the value of a reference to a cell of the given value
ReferenceTo(cell_value) ==
    CASE cell_value.t = "double" -> cell_value
      [] cell_value.t = "error" -> cell_value
      [] cell_value.t = "string" ->
            IF cell_value.s = << >> THEN Zero
            ELSE IF Numeric(cell_value.s)
            THEN [t |-> "double", d |-> NumberOf(cell_value.s)]
            ELSE [t |-> "error", e |-> "Value"]

\* the value of a cell-reference leaf of the formula of p as claimed
LeafValue(node, p) ==
    LET slot == heap[p].formula_.tree_.cell_cache_.slots[node.ptr]
        target == CellAt(Pos(slot.row, slot.col))
    IN  IF ~slot.has THEN [t |-> "error", e |-> "Ref"]
        ELSE IF target = 0 THEN Zero
        ELSE ReferenceTo(CellGetValue(sheet, target, {p}).v)

\* C25: evaluating a cell-reference leaf: a deleted slot gives Error(Ref); a
\* position with no cell gives Double(0); a referenced cell whose value is a
\* Double gives that Double, whose value is an Error gives that Error, whose
\* value is empty text gives Double(0), and whose value is non-numeric text
\* gives Error(Value).
C25_CellReferenceValue ==
    \A p \in FormulaCells :
        \A node \in NodesOf(p) :
            (node.k = "Cell" /\ ~ValueOf(node, p).diverged) =>
                ValueOf(node, p).v = LeafValue(node, p)

\* a binary node of the formula of p is a division of doubles by zero
DividesByZero(node, p) ==
    /\ node.k = "BinaryOp"
    /\ node.op = "DIV"
    /\ ~ValueOf(node.lhs, p).diverged /\ ValueOf(node.lhs, p).v.t = "double"
    /\ ~ValueOf(node.rhs, p).diverged /\ ValueOf(node.rhs, p).v.t = "double"
    /\ ValueOf(node.rhs, p).v.d.num = 0

Div0 == [t |-> "error", e |-> "Div0"]

\* C26: a binary operation whose arithmetic result is not finite yields
\* Error(Div0); in particular any division whose right operand evaluates to
\* 0 yields Error(Div0) (A1 = "=1/0" gives Error(Div0)), and that error is a
\* cell value, not an exception.
C26_DivisionByZeroIsDiv0 ==
    /\ [](\A p \in FormulaCells :
              \A node \in NodesOf(p) :
                  DividesByZero(node, p) => ValueOf(node, p).v = Div0)
    /\ [][(/\ last'.op = "GetValue"
           /\ CellAt(last'.pos) # 0
           /\ heap[CellAt(last'.pos)].text_ = << "=", "1", "/", "0" >>) =>
              /\ last'.result = "ok"
              /\ ~crashed'
              /\ heap'[CellAt(last'.pos)].cache_ = [has |-> TRUE, v |-> Div0]]_vars

\* the cell B1 = 1/0 has been read
C26_Witness ==
    /\ last.op = "GetValue" /\ last.result = "ok" /\ last.pos = Pos(0, 1)
    /\ CellAt(Pos(0, 1)) # 0
    /\ heap[CellAt(Pos(0, 1))].text_ = << "=", "1", "/", "0" >>
    /\ heap[CellAt(Pos(0, 1))].cache_ = [has |-> TRUE, v |-> Div0]

\* the value of a plain text
Unescaped(text) ==
    IF Len(text) > 0 /\ text[1] = "'" THEN SubSeq(text, 2, Len(text)) ELSE text

\* the text is a plain text
Plain(text) == Len(text) = 0 \/ text[1] # "="

\* C27: for a cell set to plain text t (not starting with '='): GetText() ==
\* t always; GetValue() == Text(t without its first character) when t starts
\* with an apostrophe, and Text(t) otherwise; the cell has no formula and no
\* referenced cells.
C27_PlainTextCell ==
    /\ [][(/\ last'.op = "SetCell"
           /\ last'.result = "ok"
           /\ Plain(last'.text)) =>
              LET cell == CellIn(cells_', last'.pos)
              IN  /\ cell # 0
                  /\ heap'[cell].text_ = last'.text
                  /\ heap'[cell].formula_ = [null |-> TRUE]
                  /\ CellGetReferencedCells(heap'[cell]) = << >>]_vars
    /\ [](\A p \in DOMAIN heap :
              heap[p].formula_.null =>
                  /\ heap[p].cache_.has =>
                         heap[p].cache_.v = [t |-> "string", s |-> Unescaped(heap[p].text_)]
                  /\ CellGetValue(sheet, p, {}).v =
                         [t |-> "string", s |-> Unescaped(heap[p].text_)])

\* the cell A1 = 'x has been read: its text keeps the apostrophe, its value
\* does not
C27_Witness ==
    /\ last.op = "GetValue" /\ last.result = "ok" /\ last.pos = Pos(0, 0)
    /\ CellAt(Pos(0, 0)) # 0
    /\ heap[CellAt(Pos(0, 0))].text_ = << "'", "x" >>
    /\ heap[CellAt(Pos(0, 0))].formula_.null
    /\ heap[CellAt(Pos(0, 0))].cache_ = [has |-> TRUE, v |-> [t |-> "string", s |-> << "x" >>]]

(***************************************************************************)
(* The extent of the grid and the life of cells                            *)
(***************************************************************************)
\* the positions the cell at pos references
ReferencedPositions(grid, cells, pos) ==
    SeqToSet(CellGetReferencedCells(cells[CellIn(grid, pos)]))

\* C28: the grid's row count and column count never decrease across
\* SetCell, GetCell, ClearCell, InsertRows, InsertCols or GetValue; they
\* decrease only in DeleteRows/DeleteCols steps (and SetCell grows the grid
\* to contain the written position and every referenced position).
C28_GridShrinksOnlyByDelete ==
    [][/\ last'.op \notin {"DeleteRows", "DeleteCols"} =>
              /\ Rows(cells_') >= Rows(cells_)
              /\ Cols(cells_') >= Cols(cells_)
       /\ (last'.op = "SetCell" /\ last'.result = "ok") =>
              /\ last'.pos.row < Rows(cells_') /\ last'.pos.col < Cols(cells_')
              /\ \A ref \in ReferencedPositions(cells_', heap', last'.pos) :
                     ref.row < Rows(cells_') /\ ref.col < Cols(cells_')]_vars

\* a formula written below and right of the grid has grown it past the
\* positions it references
C28_Witness ==
    /\ last.op = "SetCell" /\ last.result = "ok"
    /\ last.pos = Pos(0, 0)
    /\ last.text = << "=", "A", "2", "+", "A", "3" >>
    /\ Rows(cells_) = 3

\* the call made destroys nothing at pos by the rules of the claim
Spared(pos, call, grid) ==
    CASE call.op = "ClearCell" -> pos # call.pos
      [] call.op = "DeleteRows" /\ call.b > 0 ->
            pos.row < call.a \/ pos.row >= call.a + call.b
      [] call.op = "DeleteCols" /\ call.b > 0 ->
            pos.col < call.a \/ pos.col >= call.a + call.b
      [] OTHER -> TRUE

\* the current position after the call of the cell that was at a spared pos
PositionAfter(pos, call, grid) ==
    CASE call.result # "ok" -> pos
      [] call.op = "InsertRows" /\ call.a < Rows(grid) /\ pos.row >= call.a ->
            Pos(pos.row + call.b, pos.col)
      [] call.op = "InsertCols" /\ call.a < Cols(grid) /\ pos.col >= call.a ->
            Pos(pos.row, pos.col + call.b)
      [] call.op = "DeleteRows" /\ call.b > 0 /\ pos.row >= call.a + call.b ->
            Pos(pos.row - call.b, pos.col)
      [] call.op = "DeleteCols" /\ call.b > 0 /\ pos.col >= call.a + call.b ->
            Pos(pos.row, pos.col - call.b)
      [] OTHER -> pos

\* C29: a cell, once created, continues to exist (GetCell at its current,
\* possibly shifted, position is non-null and is the same cell) until a
\* ClearCell on its position or a DeleteRows/DeleteCols covering its
\* row/column; no SetCell, InsertRows, InsertCols or GetValue step destroys
\* a cell.
C29_CellsLiveUntilClearedOrDeleted ==
    [][\A pos \in GridPositions :
           (CellAt(pos) # 0 /\ Spared(pos, last', cells_)) =>
               /\ CellIn(cells_', PositionAfter(pos, last', cells_)) = CellAt(pos)
               /\ CellAt(pos) \in DOMAIN heap']_vars

\* a cell has been moved by an insertion of rows
C29_Witness ==
    /\ last.op = "InsertRows" /\ last.result = "ok" /\ last.a = 0 /\ last.b = 1
    /\ CellAt(Pos(1, 0)) # 0
    /\ heap[CellAt(Pos(1, 0))].text_ = << "2" >>

\* C30: DeleteRows(first, count) with first >= rows or count <= 0 is a
\* no-op: no cell, text, formula reference, cache, edge or grid dimension
\* changes (DeleteCols likewise with first >= cols).
C30_DeleteOfNothingIsNoOp ==
    [][(\/ /\ last'.op = "DeleteRows"
           /\ (last'.a >= Rows(cells_) \/ last'.b <= 0)
        \/ /\ last'.op = "DeleteCols"
           /\ (last'.a >= Cols(cells_) \/ last'.b <= 0)) =>
           /\ last'.result = "ok"
           /\ cells_' = cells_
           /\ heap' = heap]_vars

\* DeleteRows with a count of 0 has been called on a sheet that holds a cell
\* in the row named
C30_Witness ==
    /\ last.op = "DeleteRows" /\ last.result = "ok"
    /\ last.a = 0 /\ last.b = 0
    /\ CellAt(Pos(0, 0)) # 0

(***************************************************************************)
(* The reach of an invalidation                                            *)
(***************************************************************************)
\* the cells whose caches an invalidation started at cell is to reset: the
\* cells that hold a cached value among those reached from cell through the
\* in-edges of cells that hold one
ToReset(cell) ==
    {p \in InReachableThroughCached({cell}, {}) \cap Live : heap[p].cache_.has}

\* the heap with the caches of a set of cells reset and nothing else changed
WithReset(cells) ==
    [p \in DOMAIN heap |->
        IF p \in cells THEN [heap[p] EXCEPT !.cache_ = NullOpt] ELSE heap[p]]

\* C31: cache invalidation started at cell C clears exactly the caches of
\* the cells reachable from C along in-edge paths on which every cell before
\* the last had a cached value: it stops descending at a cell whose cache is
\* already None and never clears the cache of a cell that is not
\* in-reachable from C.  Stated of InvalidateCache started at any cell of
\* any state, and of the caches a successful SetCell leaves.
C31_InvalidationClearsExactlyCachedReach ==
    /\ [](\A cell \in Live : InvalidateCache(heap, cell).heap = WithReset(ToReset(cell)))
    /\ [][(last'.op = "SetCell" /\ last'.result = "ok") =>
              \A p \in (DOMAIN heap) \cap (DOMAIN heap') :
                  heap[p].cache_.has =>
                      (heap'[p].cache_.has <=> p \notin ToReset(CellIn(cells_', last'.pos)))]_vars

\* a SetCell on a referenced cell has reset the cache of a dependent and left
\* the cache of a cell that does not depend on it
C31_Witness ==
    /\ last.op = "SetCell" /\ last.result = "ok"
    /\ \E p \in heap[CellAt(last.pos)].in_cells_ \cap Live :
           p \in last.cached /\ ~heap[p].cache_.has
    /\ \E q \in Live :
           /\ q \in last.cached /\ heap[q].cache_.has
           /\ q # CellAt(last.pos)

(***************************************************************************)
(* The cache of the references of a formula                                *)
(***************************************************************************)
\* the CellRef cache of the formula of cell p, and the slots its leaves hold
CacheOfCell(p) == heap[p].formula_.tree_.cell_cache_

LiveLeaves(p) ==
    {node \in NodesOf(p) : node.k = "Cell" /\ CacheOfCell(p).slots[node.ptr].has}

\* the keys under which a slot is found in a cache
KeysOf(cache, ptr) ==
    UNION {{Pos(r, c) : c \in {col \in DOMAIN cache.cell_params_[r] :
                                  cache.cell_params_[r][col] = ptr}} :
              r \in DOMAIN cache.cell_params_}

PositionIn(cache, ptr) == Pos(cache.slots[ptr].row, cache.slots[ptr].col)

\* C32: in every reachable state of a formula, every live cell-reference
\* leaf of its AST has its slot in the formula's CellRef cache under exactly
\* one key, that key equals the position stored in the slot, and leaves
\* naming the same address share one slot; so the set of addresses printed
\* by the rebuilt expression equals GetReferencedCells() after any sequence
\* of HandleInsertedRows/Cols and HandleDeletedRows/Cols.
C32_LiveLeavesAreKeyed ==
    \A p \in FormulaCells :
        /\ \A leaf \in LiveLeaves(p) :
               KeysOf(CacheOfCell(p), leaf.ptr) = {PositionIn(CacheOfCell(p), leaf.ptr)}
        /\ \A leaf, other \in LiveLeaves(p) :
               PositionIn(CacheOfCell(p), leaf.ptr) = PositionIn(CacheOfCell(p), other.ptr)
                   => leaf.ptr = other.ptr
        /\ {PositionIn(CacheOfCell(p), leaf.ptr) : leaf \in LiveLeaves(p)}
               = SeqToSet(CellGetReferencedCells(heap[p]))

(***************************************************************************)
(* The results of the handlers of a formula                                *)
(***************************************************************************)
\* the slots of the formula before and after the handler call of a step
SlotsBefore == parsing.tree.cell_cache_.slots

SlotsAfter == parsing'.tree.cell_cache_.slots

\* the call of the step cleared a reference; it moved one
Cleared == \E i \in DOMAIN SlotsBefore : SlotsBefore[i].has /\ ~SlotsAfter[i].has

Shifted ==
    \E i \in DOMAIN SlotsBefore :
        SlotsBefore[i].has /\ SlotsAfter[i].has /\ SlotsAfter[i] # SlotsBefore[i]

\* the HandlingResult the claim gives the call of the step
ResultClaimed ==
    IF Cleared THEN "ReferencesChanged"
    ELSE IF Shifted THEN "ReferencesRenamedOnly" ELSE "NothingChanged"

ReferencedCells == TreeGetReferencedCells(parsing.tree)

LiveReferences ==
    {Pos(slot.row, slot.col) :
        slot \in {parsing.tree.cell_cache_.slots[leaf.ptr] :
                     leaf \in {node \in SubNodes(parsing.tree.root_) : node.k = "Cell"}}
                 \cap {slot \in SeqToSet(parsing.tree.cell_cache_.slots) : slot.has}}

StrictlyAscending(positions) ==
    \A i \in 1..(Len(positions) - 1) :
        \/ positions[i].row < positions[i + 1].row
        \/ /\ positions[i].row = positions[i + 1].row
           /\ positions[i].col < positions[i + 1].col

\* what GetReferencedCells() returns is in order and names live references
InOrderAndLive == StrictlyAscending(ReferencedCells) /\ SeqToSet(ReferencedCells) \subseteq LiveReferences

\* C34: GetReferencedCells() of a formula returns its currently live
\* referenced positions in strictly ascending (row, col) order with no
\* duplicates, and never returns a position whose slot has been deleted.
C34_ReferencedCellsAreLiveReferences ==
    /\ StrictlyAscending(ReferencedCells)
    /\ SeqToSet(ReferencedCells) = LiveReferences

(***************************************************************************)
(* The rejection of cycles                                                 *)
(***************************************************************************)
\* the positions the live references of the formula at pos name
NamedBy(pos) ==
    IF CellAt(pos) = 0 \/ CellAt(pos) \notin FormulaCells THEN {}
    ELSE {PositionIn(CacheOfCell(CellAt(pos)), leaf.ptr) : leaf \in LiveLeaves(CellAt(pos))}

\* the positions reached from a set of positions through the formulas found
\* there
RECURSIVE NamedThrough(_, _)
NamedThrough(frontier, reached) ==
    IF frontier \subseteq reached THEN reached
    ELSE NamedThrough(UNION {NamedBy(pos) : pos \in frontier} \ (reached \cup frontier),
                      reached \cup frontier)

\* C35: cycle rejection has no false positives: SetCell(C, "=f") with a
\* syntactically valid f and valid positions raises
\* CircularDependencyException only if C is reachable via out-edges from the
\* cells f references; in particular replacing C's formula by one whose
\* references do not depend on C succeeds even when C's previous formula
\* referenced other cells.
C35_CycleRaisedOnlyForCycle ==
    [][(last'.op = "SetCell" /\ last'.result = "CircularDependencyException") =>
           last'.pos \in NamedThrough(ReferencesOf(last'.text), {})]_vars

(***************************************************************************)
(* The termination of GetValue                                             *)
(***************************************************************************)
\* C36: GetValue terminates for every cell of every sheet reachable by any
\* sequence of public operations: the recursive evaluation through
\* referenced cells never revisits the cell being evaluated.
C36_GetValueTerminates ==
    \A p \in Live : ~CellGetValue(sheet, p, {}).diverged

(***************************************************************************)
(* The indices of the grid                                                 *)
(***************************************************************************)
\* C37: every grid access made by a public Sheet operation uses indices
\* inside the current grid (0 <= row < Rows, 0 <= col < Cols); in particular
\* ClearCell(pos) with an invalid position (negative row or column) and
\* InsertRows/InsertCols with a negative 'before' never index the grid out
\* of bounds.
C37_GridIndexedWithinBounds ==
    [][/\ last'.op = "ClearCell" =>
              \A pos \in ClearCellIndexes(cells_, last'.pos) : InGrid(cells_, pos)
       /\ last'.op = "InsertRows" =>
              \A offset \in InsertOffsets(Rows(cells_), last'.a, last'.b) :
                  0 <= offset /\ offset <= Rows(cells_)
       /\ (last'.op = "InsertCols" /\ Rows(cells_) > 0) =>
              \A offset \in InsertOffsets(Cols(cells_), last'.a, last'.b) :
                  0 <= offset /\ offset <= Cols(cells_)
       /\ (last'.op = "SetCell" /\ last'.result \notin {"InvalidPositionException", "crash"}) =>
              InGrid(cells_', last'.pos)
       /\ (last'.op = "GetValue" /\ last'.result = "ok") =>
              InGrid(cells_, last'.pos)]_vars

(***************************************************************************)
(* The shape of the grid                                                   *)
(***************************************************************************)
\* C38: the grid is rectangular in every reachable state: all rows of the
\* cell container have the same length, which is the value Cols() reads
\* from the first row, across SetCell resizing, InsertRows/InsertCols and
\* DeleteRows/DeleteCols.
C38_GridRectangular ==
    \A i \in 1..Rows(cells_) : Len(cells_[i]) = Cols(cells_)

\* SetCell has added rows below a grid of two columns
C38_Witness ==
    /\ last.op = "SetCell" /\ last.result = "ok"
    /\ last.pos = Pos(2, 0)
    /\ Rows(cells_) = 3 /\ Cols(cells_) = 2
    /\ CellAt(Pos(0, 1)) # 0

\* columns have been deleted from a grid of several rows
C38_WitnessOfDeleteCols ==
    /\ last.op = "DeleteCols" /\ last.result = "ok"
    /\ Rows(cells_) >= 2 /\ Cols(cells_) = 1

=============================================================================
